---- MODULE Spec2Model ----
(***************************************************************************)
(* dbdiff: the SQLite schema differ, its engine adapter (connections,     *)
(* introspection, Diff, Close) and the command-line entry point.          *)
(*                                                                         *)
(* A string built by the program is modelled as a sequence of tokens: a    *)
(* token is either one SQL statement (a tuple whose first element is the   *)
(* statement's keyword) or the newline token NL.  Stored SQL text of a     *)
(* trigger or a view is a tuple <<keyword, name, ...>> that stands for the *)
(* text of its CREATE statement.                                           *)
(***************************************************************************)
EXTENDS Integers, Sequences, FiniteSets, TLC

(***************************************************************************)
(* Generic helpers on sequences.                                           *)
(***************************************************************************)
Range(s) == {s[i] : i \in DOMAIN s}

Prefix(s, n) == SubSeq(s, 1, IF n < Len(s) THEN n ELSE Len(s))

RECURSIVE Concat(_)
Concat(ss) == IF ss = <<>> THEN <<>> ELSE Head(ss) \o Concat(Tail(ss))

\* The orders in which the elements of the finite set S can be enumerated.
RECURSIVE Perms(_)
Perms(S) ==
    IF S = {} THEN {<<>>}
    ELSE UNION {{<<x>> \o p : p \in Perms(S \ {x})} : x \in S}

(***************************************************************************)
(* Strings as token sequences.                                             *)
(***************************************************************************)
NL == <<"\n">>

IsSpace(tok) == tok = NL

RECURSIVE TrimLeft(_)
TrimLeft(s) ==
    IF s # <<>> /\ IsSpace(Head(s)) THEN TrimLeft(Tail(s)) ELSE s

RECURSIVE TrimRight(_)
TrimRight(s) ==
    IF s # <<>> /\ IsSpace(s[Len(s)]) THEN TrimRight(SubSeq(s, 1, Len(s) - 1)) ELSE s

\* strings.TrimSpace
TrimSpace(s) == TrimRight(TrimLeft(s))

\* fmt.Fprintln(&b, s) and fmt.Fprintf(&b, "%s\n", s)
Fprintln(b, s) == b \o s \o <<NL>>

\* strings.Join(parts, "\n")
RECURSIVE JoinLines(_)
JoinLines(parts) ==
    IF parts = <<>> THEN <<>>
    ELSE IF Len(parts) = 1 THEN Head(parts)
    ELSE Head(parts) \o <<NL>> \o JoinLines(Tail(parts))

\* The SQL statements of a script, in order.
Statements(s) == SelectSeq(s, LAMBDA tok : ~IsSpace(tok))

(***************************************************************************)
(* Schema model: columns, indexes, foreign keys, tables.                   *)
(***************************************************************************)
NullString == [Valid |-> FALSE, String |-> ""]

SQLiteColumn(name, type, notNull, primaryKey, default) ==
    [Name |-> name, Type |-> type, NotNull |-> notNull,
     PrimaryKey |-> primaryKey, Default |-> default]

\* SQLiteColumn.HasEqualAttributes
HasEqualAttributes(c, other) == [c EXCEPT !.Name = other.Name] = other

\* SQLiteColumn.String: the column clause of CREATE TABLE / ADD COLUMN.
\* The clause carries the default only when Default.Valid.
ColumnString(c) ==
    <<c.Name, c.Type, c.NotNull, c.PrimaryKey,
      IF c.Default.Valid THEN <<c.Default.String>> ELSE <<>> >>

compatibleTypes == {"TEXT", "INTEGER", "REAL", "BLOB"}

\* A faulty variant of SQLiteColumn.IsTypeChangeCompatible that looks at the
\* new type only.
IsTypeChangeCompatibleForNewType(c, other) ==
    c.Type \in compatibleTypes

\* SQLiteColumn.IsTypeChangeCompatible
IsTypeChangeCompatible(c, other) ==
    c.Type \in compatibleTypes /\ other.Type \in compatibleTypes

\* A faulty variant of SQLiteIndex.Equal that compares the index's table
\* with the other index's name, so an index never equals itself.
IndexEqualTableAgainstName(i, other) ==
    /\ i.Name = other.Name
    /\ i.Table = other.Name
    /\ i.Unique = other.Unique
    /\ Len(i.Columns) = Len(other.Columns)
    /\ \A k \in DOMAIN i.Columns : i.Columns[k] = other.Columns[k]

\* SQLiteIndex.Equal
IndexEqual(i, other) ==
    /\ i.Name = other.Name
    /\ i.Table = other.Table
    /\ i.Unique = other.Unique
    /\ Len(i.Columns) = Len(other.Columns)
    /\ \A k \in DOMAIN i.Columns : i.Columns[k] = other.Columns[k]

\* SQLiteIndex.String
IndexString(i) == <<"CREATE INDEX", i.Name, i.Table, i.Columns, i.Unique>>

\* SQLiteForeignKey.Equal
ForeignKeyEqual(fk, other) ==
    /\ fk.Table = other.Table
    /\ fk.OnUpdate = other.OnUpdate
    /\ fk.OnDelete = other.OnDelete
    /\ Len(fk.From) = Len(other.From)
    /\ Len(fk.To) = Len(other.To)
    /\ \A k \in DOMAIN fk.From : fk.From[k] = other.From[k]
    /\ \A k \in DOMAIN fk.To : fk.To[k] = other.To[k]

\* The ON UPDATE / ON DELETE part of SQLiteForeignKey.String: omitted for
\* "NO ACTION" and for the empty string.
ActionClause(action) ==
    IF action # "NO ACTION" /\ action # "" THEN <<action>> ELSE <<>>

\* SQLiteForeignKey.String
ForeignKeyString(fk) ==
    <<fk.From, fk.Table, fk.To, ActionClause(fk.OnUpdate), ActionClause(fk.OnDelete)>>

\* SQLiteTable.ColumnByName / IndexByName / TriggerByName: found flag and
\* the first element with the name.
HasName(list, name) == \E k \in DOMAIN list : list[k].Name = name

ByName(list, name) ==
    list[CHOOSE k \in DOMAIN list :
            /\ list[k].Name = name
            /\ \A j \in 1..(k - 1) : list[j].Name # name]

ColumnByName(t, name) == ByName(t.Columns, name)

IndexByName(t, name) == ByName(t.Indexes, name)

TriggerByName(t, name) == ByName(t.Triggers, name)

\* SQLiteTable.StringCreateTable
StringCreateTable(t) ==
    << <<"CREATE TABLE", t.Name,
         [k \in DOMAIN t.Columns |-> ColumnString(t.Columns[k])],
         [k \in DOMAIN t.ForeignKeys |-> ForeignKeyString(t.ForeignKeys[k])]>> >>

\* SQLiteTable.StringCreateIndexes
StringCreateIndexes(t) ==
    JoinLines([k \in DOMAIN t.Indexes |-> <<IndexString(t.Indexes[k])>>])

\* A stored CREATE text followed by ";".
ExecSQL(sql) == <<"EXEC", sql>>

\* SQLiteTable.StringCreateTriggers
StringCreateTriggers(t) ==
    JoinLines([k \in DOMAIN t.Triggers |-> <<ExecSQL(t.Triggers[k].SQL)>>])

\* A faulty variant of SQLiteTable.String that leaves the triggers out.
TableStringWithoutTriggers(t) ==
    StringCreateTable(t)
        \o (IF StringCreateIndexes(t) # <<>> THEN <<NL>> \o StringCreateIndexes(t) ELSE <<>>)

\* SQLiteTable.String
TableString(t) ==
    StringCreateTable(t)
        \o (IF StringCreateIndexes(t) # <<>> THEN <<NL>> \o StringCreateIndexes(t) ELSE <<>>)
        \o (IF StringCreateTriggers(t) # <<>> THEN <<NL>> \o StringCreateTriggers(t) ELSE <<>>)

(***************************************************************************)
(* Go maps (SQLiteTableColumnsDiff.Renamed) as sets of <<key, value>>.     *)
(***************************************************************************)
MapKeys(m) == {p[1] : p \in m}

MapSet(m, k, v) == {p \in m : p[1] # k} \cup {<<k, v>>}

MapGet(m, k) == (CHOOSE p \in m : p[1] = k)[2]

\* A faulty variant of lo.Invert that returns the map as it is.
InvertKeepingKeys(m) == m

\* lo.Invert
Invert(m) == {<<p[2], p[1]>> : p \in m}

(***************************************************************************)
(* SQLiteTable.DiffColumns                                                 *)
(***************************************************************************)
NewColumnsDiff ==
    [Added |-> <<>>, Modified |-> <<>>, Removed |-> <<>>, Renamed |-> {},
     ForeignKeysChanged |-> FALSE]

\* The rename search of DiffColumns: target columns, in declared order,
\* whose name is absent from the source and whose other attributes equal
\* those of sourceColumn.
RenameCandidates(t, other, sourceColumn) ==
    SelectSeq(other.Columns,
              LAMBDA c : ~HasName(t.Columns, c.Name) /\ HasEqualAttributes(c, sourceColumn))

\* A faulty variant of the iteration that, after recording a rename, goes on
\* to add the column as well.
DiffSourceColumnWithoutContinue(t, other, diff, sourceColumn) ==
    IF ~HasName(other.Columns, sourceColumn.Name)
    THEN IF RenameCandidates(t, other, sourceColumn) # <<>>
         THEN [diff EXCEPT !.Renamed =
                  MapSet(@, Head(RenameCandidates(t, other, sourceColumn)).Name,
                         sourceColumn.Name),
                           !.Added = Append(@, sourceColumn.Name)]
         ELSE [diff EXCEPT !.Added = Append(@, sourceColumn.Name)]
    ELSE LET targetColumn == ColumnByName(other, sourceColumn.Name) IN
         IF sourceColumn = targetColumn THEN diff
         ELSE IF sourceColumn.Type # targetColumn.Type
         THEN IF IsTypeChangeCompatible(sourceColumn, targetColumn)
              THEN [diff EXCEPT !.Modified = Append(@, sourceColumn.Name)]
              ELSE [diff EXCEPT !.Removed = Append(@, targetColumn.Name),
                                !.Added = Append(@, sourceColumn.Name)]
         ELSE [diff EXCEPT !.Modified = Append(@, sourceColumn.Name)]

\* One iteration of the loop over the source columns.
DiffSourceColumn(t, other, diff, sourceColumn) ==
    IF ~HasName(other.Columns, sourceColumn.Name)
    THEN IF RenameCandidates(t, other, sourceColumn) # <<>>
         THEN [diff EXCEPT !.Renamed =
                  MapSet(@, Head(RenameCandidates(t, other, sourceColumn)).Name,
                         sourceColumn.Name)]
         ELSE [diff EXCEPT !.Added = Append(@, sourceColumn.Name)]
    ELSE LET targetColumn == ColumnByName(other, sourceColumn.Name) IN
         IF sourceColumn = targetColumn THEN diff
         ELSE IF sourceColumn.Type # targetColumn.Type
         THEN IF IsTypeChangeCompatible(sourceColumn, targetColumn)
              THEN [diff EXCEPT !.Modified = Append(@, sourceColumn.Name)]
              ELSE [diff EXCEPT !.Removed = Append(@, targetColumn.Name),
                                !.Added = Append(@, sourceColumn.Name)]
         ELSE [diff EXCEPT !.Modified = Append(@, sourceColumn.Name)]

RECURSIVE DiffSourceColumns(_, _, _, _)
DiffSourceColumns(t, other, diff, i) ==
    IF i > Len(t.Columns) THEN diff
    ELSE DiffSourceColumns(t, other, DiffSourceColumn(t, other, diff, t.Columns[i]), i + 1)

\* A faulty variant of the loop over the target columns that appends to
\* Added instead of Removed.
DiffRemovedColumnsIntoAdded(t, other, diff) ==
    [diff EXCEPT !.Added =
        @ \o [k \in DOMAIN
                SelectSeq(other.Columns,
                          LAMBDA c : ~HasName(t.Columns, c.Name)
                                     /\ c.Name \notin MapKeys(diff.Renamed))
              |-> SelectSeq(other.Columns,
                          LAMBDA c : ~HasName(t.Columns, c.Name)
                                     /\ c.Name \notin MapKeys(diff.Renamed))[k].Name]]

\* The loop over the target columns ("Removed columns").
DiffRemovedColumns(t, other, diff) ==
    [diff EXCEPT !.Removed =
        @ \o [k \in DOMAIN
                SelectSeq(other.Columns,
                          LAMBDA c : ~HasName(t.Columns, c.Name)
                                     /\ c.Name \notin MapKeys(diff.Renamed))
              |-> SelectSeq(other.Columns,
                          LAMBDA c : ~HasName(t.Columns, c.Name)
                                     /\ c.Name \notin MapKeys(diff.Renamed))[k].Name]]

\* "Check if foreign keys changed"
ForeignKeysChanged(t, other) ==
    IF Len(t.ForeignKeys) # Len(other.ForeignKeys) THEN TRUE
    ELSE \E i \in DOMAIN t.ForeignKeys :
            ~\E j \in DOMAIN other.ForeignKeys :
                ForeignKeyEqual(other.ForeignKeys[j], t.ForeignKeys[i])

DiffColumns(t, other) ==
    [DiffRemovedColumns(t, other, DiffSourceColumns(t, other, NewColumnsDiff, 1))
        EXCEPT !.ForeignKeysChanged = ForeignKeysChanged(t, other)]

(***************************************************************************)
(* SQLiteTable.DiffTable                                                   *)
(***************************************************************************)
Quoted(name) == <<"ident", name>>

\* A faulty variant of the SELECT expression that does not copy a column
\* kept under its name.
SelectExprWithoutCopy(other, newToOld, newCol) ==
    IF newCol.Name \in MapKeys(newToOld) THEN Quoted(MapGet(newToOld, newCol.Name))
    ELSE IF newCol.Default.Valid THEN <<"expr", newCol.Default.String>>
    ELSE <<"expr", "NULL">>

\* The SELECT expression of the rebuild's INSERT for source column newCol.
SelectExpr(other, newToOld, newCol) ==
    IF HasName(other.Columns, newCol.Name) THEN Quoted(newCol.Name)
    ELSE IF newCol.Name \in MapKeys(newToOld) THEN Quoted(MapGet(newToOld, newCol.Name))
    ELSE IF newCol.Default.Valid THEN <<"expr", newCol.Default.String>>
    ELSE <<"expr", "NULL">>

TempName(name) == "_" \o name \o "_temp"

\* A faulty variant of the rebuild branch that recreates the indexes before
\* the shadow table has taken the table's name.
RebuildTextIndexesBeforeRename(t, other, columnsDiff) ==
    LET tempTable == [t EXCEPT !.Name = TempName(t.Name)]
        newToOld == Invert(columnsDiff.Renamed)
        insertColumns == [k \in DOMAIN t.Columns |-> Quoted(t.Columns[k].Name)]
        selectColumns == [k \in DOMAIN t.Columns |-> SelectExpr(other, newToOld, t.Columns[k])]
    IN  Fprintln(<<>>, StringCreateTable(tempTable))
        \o << <<"INSERT", tempTable.Name, insertColumns, selectColumns, t.Name>>, NL >>
        \o << <<"DROP TABLE", t.Name>>, NL >>
        \o Concat([k \in DOMAIN t.Indexes |-> <<IndexString(t.Indexes[k]), NL>>])
        \o << <<"RENAME TABLE", tempTable.Name, t.Name>>, NL >>

\* The rebuild branch ("Modified columns or Foreign Keys need to be handled
\* via table recreation"), before the final TrimSpace.
RebuildText(t, other, columnsDiff) ==
    LET tempTable == [t EXCEPT !.Name = TempName(t.Name)]
        newToOld == Invert(columnsDiff.Renamed)
        insertColumns == [k \in DOMAIN t.Columns |-> Quoted(t.Columns[k].Name)]
        selectColumns == [k \in DOMAIN t.Columns |-> SelectExpr(other, newToOld, t.Columns[k])]
    IN  Fprintln(<<>>, StringCreateTable(tempTable))
        \o << <<"INSERT", tempTable.Name, insertColumns, selectColumns, t.Name>>, NL >>
        \o << <<"DROP TABLE", t.Name>>, NL >>
        \o << <<"RENAME TABLE", tempTable.Name, t.Name>>, NL >>
        \o Concat([k \in DOMAIN t.Indexes |-> <<IndexString(t.Indexes[k]), NL>>])

\* The in-place branch.  renameOrder is the order in which the range loop
\* over the Renamed map visits its keys (unspecified in Go).
\* The result is [str, err]; err reports "added column not found".
InPlaceText(t, columnsDiff, renameOrder) ==
    LET renames == Concat([k \in DOMAIN renameOrder |->
                        << <<"RENAME COLUMN", t.Name, renameOrder[k],
                             MapGet(columnsDiff.Renamed, renameOrder[k])>>, NL >>])
        removes == Concat([k \in DOMAIN columnsDiff.Removed |->
                        << <<"DROP COLUMN", t.Name, columnsDiff.Removed[k]>>, NL >>])
        adds == Concat([k \in DOMAIN columnsDiff.Added |->
                        << <<"ADD COLUMN", t.Name,
                             ColumnString(ColumnByName(t, columnsDiff.Added[k]))>>, NL >>])
    IN  IF \E k \in DOMAIN columnsDiff.Added : ~HasName(t.Columns, columnsDiff.Added[k])
        THEN [str |-> <<>>, err |-> TRUE]
        ELSE [str |-> renames \o removes \o adds, err |-> FALSE]

\* A faulty variant of the recreation condition that forgets the foreign
\* keys.
NeedsRebuildForModifiedOnly(columnsDiff) ==
    Len(columnsDiff.Modified) > 0

\* The condition of the recreation branch.
NeedsRebuild(columnsDiff) ==
    Len(columnsDiff.Modified) > 0 \/ columnsDiff.ForeignKeysChanged

\* DiffTable for one iteration order of the Renamed map.
DiffTableOrdered(t, other, renameOrder) ==
    LET columnsDiff == DiffColumns(t, other) IN
    IF NeedsRebuild(columnsDiff)
    THEN [str |-> TrimSpace(RebuildText(t, other, columnsDiff)), err |-> FALSE]
    ELSE LET r == InPlaceText(t, columnsDiff, renameOrder) IN
         [str |-> TrimSpace(r.str), err |-> r.err]

\* The results DiffTable can return: one per iteration order of Renamed.
DiffTable(t, other) ==
    {DiffTableOrdered(t, other, o) : o \in Perms(MapKeys(DiffColumns(t, other).Renamed))}

(***************************************************************************)
(* SQLiteTable.DiffTriggers, SQLiteTable.DiffIndexes, SQLiteView.Diff      *)
(***************************************************************************)
\* A faulty variant of the source triggers loop that compares the triggers'
\* names instead of their stored text.
DiffTriggerComparingNames(other, sourceTrigger) ==
    IF ~HasName(other.Triggers, sourceTrigger.Name)
    THEN <<ExecSQL(sourceTrigger.SQL), NL>>
    ELSE IF sourceTrigger.Name # TriggerByName(other, sourceTrigger.Name).Name
    THEN << <<"DROP TRIGGER", TriggerByName(other, sourceTrigger.Name).Name>>, NL,
            ExecSQL(sourceTrigger.SQL), NL >>
    ELSE <<>>

\* The body of the loop over the source triggers.
DiffTrigger(other, sourceTrigger) ==
    IF ~HasName(other.Triggers, sourceTrigger.Name)
    THEN <<ExecSQL(sourceTrigger.SQL), NL>>
    ELSE IF sourceTrigger.SQL # TriggerByName(other, sourceTrigger.Name).SQL
    THEN << <<"DROP TRIGGER", TriggerByName(other, sourceTrigger.Name).Name>>, NL,
            ExecSQL(sourceTrigger.SQL), NL >>
    ELSE <<>>

DiffTriggers(t, other) ==
    Concat([k \in DOMAIN t.Triggers |-> DiffTrigger(other, t.Triggers[k])])
    \o Concat([k \in DOMAIN other.Triggers |->
            IF ~HasName(t.Triggers, other.Triggers[k].Name)
            THEN << <<"DROP TRIGGER", other.Triggers[k].Name>>, NL >>
            ELSE <<>>])

DiffIndex(other, sourceIndex) ==
    IF ~HasName(other.Indexes, sourceIndex.Name)
    THEN <<IndexString(sourceIndex), NL>>
    ELSE IF ~IndexEqual(sourceIndex, IndexByName(other, sourceIndex.Name))
    THEN << <<"DROP INDEX", IndexByName(other, sourceIndex.Name).Name>>, NL,
            IndexString(sourceIndex), NL >>
    ELSE <<>>

DiffIndexes(t, other) ==
    Concat([k \in DOMAIN t.Indexes |-> DiffIndex(other, t.Indexes[k])])
    \o Concat([k \in DOMAIN other.Indexes |->
            IF ~HasName(t.Indexes, other.Indexes[k].Name)
            THEN << <<"DROP INDEX", other.Indexes[k].Name>>, NL >>
            ELSE <<>>])

\* A faulty variant of SQLiteView.Diff that recreates the view before
\* dropping the old one.
ViewDiffCreateFirst(v, other) ==
    TrimSpace(IF v.SQL # other.SQL
              THEN << ExecSQL(v.SQL), NL, <<"DROP VIEW", other.Name>>, NL >>
              ELSE <<>>)

\* SQLiteView.Diff
ViewDiff(v, other) ==
    TrimSpace(IF v.SQL # other.SQL
              THEN << <<"DROP VIEW", other.Name>>, NL, ExecSQL(v.SQL), NL >>
              ELSE <<>>)

(***************************************************************************)
(* Introspection.  A database is [tables, views]: the catalog's tables in  *)
(* sqlite_master order and its views in creation order.  A catalog query   *)
(* is identified by [conn, query, object]; fault is the one query of a     *)
(* Diff call that fails (or NoFault) and how it fails:                     *)
(*   "query"  QueryContext returns an error;                               *)
(*   "scan"   rows.Scan fails on row after+1;                              *)
(*   "rows"   rows.Next returns false after `after` rows because the       *)
(*            iteration failed (the error is left in rows.Err()).          *)
(* Every introspection result is [val, err].                               *)
(***************************************************************************)
NoFault == [conn |-> "", query |-> "", object |-> "", kind |-> "none", after |-> 0]

Query(conn, query, object) == [conn |-> conn, query |-> query, object |-> object]

Hits(fault, q) ==
    fault.conn = q.conn /\ fault.query = q.query /\ fault.object = q.object

\* db.QueryContext followed by the for rows.Next() { rows.Scan(...) } loop
\* that every Get* function runs; none of them reads rows.Err().
QueryRows(rows, q, fault) ==
    IF ~Hits(fault, q) THEN [val |-> rows, err |-> FALSE]
    ELSE IF fault.kind = "query" THEN [val |-> <<>>, err |-> TRUE]
    ELSE IF fault.kind = "scan" /\ fault.after < Len(rows) THEN [val |-> <<>>, err |-> TRUE]
    ELSE IF fault.kind = "rows" THEN [val |-> Prefix(rows, fault.after), err |-> FALSE]
    ELSE [val |-> rows, err |-> FALSE]

\* Results of the per-row calls of a loop: the first error aborts the loop.
AnyErr(results) == \E k \in DOMAIN results : results[k].err

Vals(results) == [k \in DOMAIN results |-> results[k].val]

\* SQLiteDriver.GetTableColumns
GetTableColumns(table, conn, fault) ==
    QueryRows(table.Columns, Query(conn, "table_info", table.Name), fault)

\* SQLiteDriver.GetIndexColumns
GetIndexColumns(index, conn, fault) ==
    QueryRows(index.Columns, Query(conn, "index_info", index.Name), fault)

\* SQLiteDriver.GetTableIndexes
GetTableIndexes(table, conn, fault) ==
    LET list == QueryRows(table.Indexes, Query(conn, "index_list", table.Name), fault)
        cols == [k \in DOMAIN list.val |-> GetIndexColumns(list.val[k], conn, fault)]
    IN  IF list.err \/ AnyErr(cols) THEN [val |-> <<>>, err |-> TRUE]
        ELSE [val |-> [k \in DOMAIN list.val |->
                        [Table |-> table.Name, Name |-> list.val[k].Name,
                         Unique |-> list.val[k].Unique, Columns |-> cols[k].val]],
              err |-> FALSE]

\* SQLiteDriver.GetTableTriggers
GetTableTriggers(table, conn, fault) ==
    QueryRows(table.Triggers, Query(conn, "triggers", table.Name), fault)

\* Go's string order (<) on the names that are sorted.
StringOrder == <<"CASCADE", "NO ACTION", "a", "b", "t", "u", "v", "w", "z">>

Rank(str) == CHOOSE k \in DOMAIN StringOrder : StringOrder[k] = str

StrLess(a, b) == Rank(a) < Rank(b)

\* strings.Join(a, ",") < strings.Join(b, ",") for lists of names
RECURSIVE JoinedLess(_, _)
JoinedLess(a, b) ==
    IF b = <<>> THEN FALSE
    ELSE IF a = <<>> THEN TRUE
    ELSE IF Head(a) # Head(b) THEN StrLess(Head(a), Head(b))
    ELSE JoinedLess(Tail(a), Tail(b))

\* The rows of PRAGMA foreign_key_list: one row per column pair of each
\* foreign key, carrying the key's id.
ForeignKeyRows(table) ==
    Concat([id \in DOMAIN table.ForeignKeys |->
        [seq \in DOMAIN table.ForeignKeys[id].From |->
            [id |-> id, table |-> table.ForeignKeys[id].Table,
             from |-> table.ForeignKeys[id].From[seq],
             to |-> table.ForeignKeys[id].To[seq],
             onUpdate |-> table.ForeignKeys[id].OnUpdate,
             onDelete |-> table.ForeignKeys[id].OnDelete]]])

\* The foreignKeysMap entry built from the rows with one id.
ForeignKeyOfRows(rows, id) ==
    LET mine == SelectSeq(rows, LAMBDA r : r.id = id) IN
    [Table |-> mine[1].table,
     From |-> [k \in DOMAIN mine |-> mine[k].from],
     To |-> [k \in DOMAIN mine |-> mine[k].to],
     OnUpdate |-> mine[1].onUpdate, OnDelete |-> mine[1].onDelete]

\* The comparison function of sort.SliceStable in GetTableForeignKeys.
ForeignKeyLess(a, b) ==
    IF a.Table # b.Table THEN StrLess(a.Table, b.Table)
    ELSE IF a.From # b.From THEN JoinedLess(a.From, b.From)
    ELSE IF a.To # b.To THEN JoinedLess(a.To, b.To)
    ELSE IF a.OnUpdate # b.OnUpdate THEN StrLess(a.OnUpdate, b.OnUpdate)
    ELSE IF a.OnDelete # b.OnDelete THEN StrLess(a.OnDelete, b.OnDelete)
    ELSE FALSE

ViewLess(v, w) == StrLess(v.Name, w.Name)

\* The strict order a sort uses: "name" for the views' ORDER BY name,
\* "foreignKey" for the comparison function of sort.SliceStable.
Less(order, a, b) ==
    IF order = "name" THEN ViewLess(a, b) ELSE ForeignKeyLess(a, b)

\* Stable insertion sort of s by the strict order `order`.
RECURSIVE InsertSorted(_, _, _)
InsertSorted(order, s, x) ==
    IF s = <<>> THEN <<x>>
    ELSE IF Less(order, x, Head(s)) THEN <<x>> \o s
    ELSE <<Head(s)>> \o InsertSorted(order, Tail(s), x)

RECURSIVE SortStable(_, _)
SortStable(order, s) ==
    IF s = <<>> THEN <<>>
    ELSE InsertSorted(order, SortStable(order, SubSeq(s, 1, Len(s) - 1)), s[Len(s)])

\* SQLiteDriver.GetViews; the query has ORDER BY name.
GetViews(db, conn, fault) ==
    QueryRows(SortStable("name", db.views), Query(conn, "views", ""), fault)

\* SQLiteDriver.GetTableForeignKeys: the set of results, one per order in
\* which lo.Values enumerates foreignKeysMap.
GetTableForeignKeys(table, conn, fault) ==
    LET rows == QueryRows(ForeignKeyRows(table), Query(conn, "foreign_key_list", table.Name), fault)
        ids == {rows.val[k].id : k \in DOMAIN rows.val}
    IN  IF rows.err THEN {[val |-> <<>>, err |-> TRUE]}
        ELSE {[val |-> SortStable("foreignKey",
                                  [k \in DOMAIN o |-> ForeignKeyOfRows(rows.val, o[k])]),
               err |-> FALSE] : o \in Perms(ids)}

\* The body of the loop of GetTables for one table row: the set of results.
GetTable(table, conn, fault) ==
    LET columns == GetTableColumns(table, conn, fault)
        indexes == GetTableIndexes(table, conn, fault)
        triggers == GetTableTriggers(table, conn, fault)
    IN  {IF columns.err \/ indexes.err \/ triggers.err \/ foreignKeys.err
         THEN [val |-> <<>>, err |-> TRUE]
         ELSE [val |-> [Name |-> table.Name, Columns |-> columns.val,
                        Indexes |-> indexes.val, Triggers |-> triggers.val,
                        ForeignKeys |-> foreignKeys.val],
               err |-> FALSE]
         : foreignKeys \in GetTableForeignKeys(table, conn, fault)}

\* All sequences that take their k-th element from the k-th set of sets.
RECURSIVE Choices(_)
Choices(sets) ==
    IF sets = <<>> THEN {<<>>}
    ELSE {<<x>> \o rest : x \in Head(sets), rest \in Choices(Tail(sets))}

\* SQLiteDriver.GetTables: the set of results.
GetTables(db, conn, fault) ==
    LET list == QueryRows(db.tables, Query(conn, "tables", ""), fault) IN
    IF list.err THEN {[val |-> <<>>, err |-> TRUE]}
    ELSE {IF AnyErr(tables) THEN [val |-> <<>>, err |-> TRUE]
          ELSE [val |-> Vals(tables), err |-> FALSE]
          : tables \in Choices([k \in DOMAIN list.val |-> GetTable(list.val[k], conn, fault)])}

(***************************************************************************)
(* SQLiteDriver.DiffTables, DiffViews, Diff on introspected models.        *)
(* Each returns the set of results [str, err] it can produce.              *)
(***************************************************************************)
Failed == [str |-> <<>>, err |-> TRUE]

\* The body of the "Added or modified tables" loop for one source table:
\* the texts it can append to the builder, or Failed.
DiffSourceTable(sourceTable, targetTables) ==
    IF ~HasName(targetTables, sourceTable.Name)
    THEN {[str |-> Fprintln(<<>>, TableString(sourceTable)), err |-> FALSE]}
    ELSE LET targetTable == ByName(targetTables, sourceTable.Name) IN
         {IF d.err THEN Failed
          ELSE [str |-> Fprintln(Fprintln(Fprintln(<<>>, d.str),
                                          DiffIndexes(sourceTable, targetTable)),
                                 DiffTriggers(sourceTable, targetTable)),
                err |-> FALSE]
          : d \in DiffTable(sourceTable, targetTable)}

\* A faulty variant of the removed-tables loop that walks the source
\* tables and drops those the target lacks.
DiffRemovedTablesOfSource(sourceTables, targetTables) ==
    Concat([k \in DOMAIN sourceTables |->
            IF ~HasName(targetTables, sourceTables[k].Name)
            THEN << <<"DROP TABLE", sourceTables[k].Name>>, NL >>
            ELSE <<>>])

\* The "Removed tables" loop.
DiffRemovedTables(sourceTables, targetTables) ==
    Concat([k \in DOMAIN targetTables |->
            IF ~HasName(sourceTables, targetTables[k].Name)
            THEN << <<"DROP TABLE", targetTables[k].Name>>, NL >>
            ELSE <<>>])

\* SQLiteDriver.DiffTables: the set of results [sourceTables, targetTables,
\* str, err]; the two models are the values the GetTables calls returned
\* with a nil error (<<>> for a call that failed or was not reached).
DiffTables(source, target, fault) ==
    UNION {
        IF st.err
        THEN {[sourceTables |-> <<>>, targetTables |-> <<>>, str |-> <<>>, err |-> TRUE]}
        ELSE UNION {
            IF tt.err
            THEN {[sourceTables |-> st.val, targetTables |-> <<>>, str |-> <<>>, err |-> TRUE]}
            ELSE {IF AnyErr(parts)
                  THEN [sourceTables |-> st.val, targetTables |-> tt.val,
                        str |-> <<>>, err |-> TRUE]
                  ELSE [sourceTables |-> st.val, targetTables |-> tt.val,
                        str |-> TrimSpace(Concat([k \in DOMAIN parts |-> parts[k].str])
                                          \o DiffRemovedTables(st.val, tt.val)),
                        err |-> FALSE]
                  : parts \in Choices([k \in DOMAIN st.val |->
                                          DiffSourceTable(st.val[k], tt.val)])}
            : tt \in GetTables(target, "target", fault)}
        : st \in GetTables(source, "source", fault)}

\* The two loops of DiffViews.
DiffViewModels(sourceViews, targetViews) ==
    Concat([k \in DOMAIN sourceViews |->
        IF ~HasName(targetViews, sourceViews[k].Name)
        THEN <<ExecSQL(sourceViews[k].SQL), NL>>
        ELSE Fprintln(<<>>, ViewDiff(sourceViews[k], ByName(targetViews, sourceViews[k].Name)))])
    \o Concat([k \in DOMAIN targetViews |->
        IF ~HasName(sourceViews, targetViews[k].Name)
        THEN << <<"DROP VIEW", targetViews[k].Name>>, NL >>
        ELSE <<>>])

\* SQLiteDriver.DiffViews: [sourceViews, targetViews, str, err]
DiffViews(source, target, fault) ==
    LET sv == GetViews(source, "source", fault)
        tv == GetViews(target, "target", fault)
    IN  IF sv.err
        THEN [sourceViews |-> <<>>, targetViews |-> <<>>, str |-> <<>>, err |-> TRUE]
        ELSE IF tv.err
        THEN [sourceViews |-> sv.val, targetViews |-> <<>>, str |-> <<>>, err |-> TRUE]
        ELSE [sourceViews |-> sv.val, targetViews |-> tv.val,
              str |-> TrimSpace(DiffViewModels(sv.val, tv.val)), err |-> FALSE]

\* SQLiteDriver.Diff: the set of runs possible on the databases source and
\* target under fault.  A run records the models Diff read and the pair
\* (str, err) it returned.
Diff(source, target, fault) ==
    {IF tables.err
     THEN [sourceTables |-> tables.sourceTables, targetTables |-> tables.targetTables,
           sourceViews |-> <<>>, targetViews |-> <<>>, str |-> <<>>, err |-> TRUE]
     ELSE LET views == DiffViews(source, target, fault) IN
          IF views.err
          THEN [sourceTables |-> tables.sourceTables, targetTables |-> tables.targetTables,
                sourceViews |-> views.sourceViews, targetViews |-> views.targetViews,
                str |-> <<>>, err |-> TRUE]
          ELSE [sourceTables |-> tables.sourceTables, targetTables |-> tables.targetTables,
                sourceViews |-> views.sourceViews, targetViews |-> views.targetViews,
                str |-> TrimSpace(Fprintln(Fprintln(<<>>, tables.str), views.str)),
                err |-> FALSE]
     : tables \in DiffTables(source, target, fault)}

(***************************************************************************)
(* Executing a statement of the script on a database (what the tests do    *)
(* with ExecOnTarget(diff)): the engine's reading of each statement.       *)
(***************************************************************************)
TableExists(db, name) == HasName(db.tables, name)

IndexExists(db, name) == \E k \in DOMAIN db.tables : HasName(db.tables[k].Indexes, name)

TriggerExists(db, name) == \E k \in DOMAIN db.tables : HasName(db.tables[k].Triggers, name)

ViewExists(db, name) == HasName(db.views, name)

TableOf(db, name) == ByName(db.tables, name)

\* The column a column clause declares.
ParseColumn(clause) ==
    SQLiteColumn(clause[1], clause[2], clause[3], clause[4],
                 IF clause[5] = <<>> THEN NullString
                 ELSE [Valid |-> TRUE, String |-> clause[5][1]])

ParseAction(clause) == IF clause = <<>> THEN "NO ACTION" ELSE clause[1]

\* The foreign key a FOREIGN KEY clause declares.
ParseForeignKey(clause) ==
    [Table |-> clause[2], From |-> clause[1], To |-> clause[3],
     OnUpdate |-> ParseAction(clause[4]), OnDelete |-> ParseAction(clause[5])]

ColumnNames(t) == {t.Columns[k].Name : k \in DOMAIN t.Columns}

\* Whether the engine accepts stmt on db: a CREATE names an object that does
\* not exist yet (on an existing table), every other statement names
\* objects that exist.
Applicable(db, stmt) ==
    CASE stmt[1] = "CREATE TABLE" -> ~TableExists(db, stmt[2])
      [] stmt[1] = "DROP TABLE" -> TableExists(db, stmt[2])
      [] stmt[1] = "RENAME TABLE" -> TableExists(db, stmt[2]) /\ ~TableExists(db, stmt[3])
      [] stmt[1] = "INSERT" ->
            /\ TableExists(db, stmt[2])
            /\ TableExists(db, stmt[5])
            /\ \A k \in DOMAIN stmt[3] : stmt[3][k][2] \in ColumnNames(TableOf(db, stmt[2]))
            /\ \A k \in DOMAIN stmt[4] :
                  stmt[4][k][1] = "ident" => stmt[4][k][2] \in ColumnNames(TableOf(db, stmt[5]))
      [] stmt[1] = "RENAME COLUMN" ->
            /\ TableExists(db, stmt[2])
            /\ stmt[3] \in ColumnNames(TableOf(db, stmt[2]))
            /\ stmt[4] \notin ColumnNames(TableOf(db, stmt[2]))
      [] stmt[1] = "DROP COLUMN" ->
            TableExists(db, stmt[2]) /\ stmt[3] \in ColumnNames(TableOf(db, stmt[2]))
      [] stmt[1] = "ADD COLUMN" ->
            TableExists(db, stmt[2]) /\ stmt[3][1] \notin ColumnNames(TableOf(db, stmt[2]))
      [] stmt[1] = "CREATE INDEX" -> ~IndexExists(db, stmt[2]) /\ TableExists(db, stmt[3])
      [] stmt[1] = "DROP INDEX" -> IndexExists(db, stmt[2])
      [] stmt[1] = "DROP TRIGGER" -> TriggerExists(db, stmt[2])
      [] stmt[1] = "DROP VIEW" -> ViewExists(db, stmt[2])
      [] stmt[1] = "EXEC" /\ stmt[2][1] = "CREATE TRIGGER" ->
            ~TriggerExists(db, stmt[2][2]) /\ TableExists(db, stmt[2][3])
      [] stmt[1] = "EXEC" /\ stmt[2][1] = "CREATE VIEW" -> ~ViewExists(db, stmt[2][2])

Without(list, name) == SelectSeq(list, LAMBDA x : x.Name # name)

\* db with table `name` replaced by table `new`.
ReplaceTable(db, name, new) ==
    [db EXCEPT !.tables =
        [k \in DOMAIN db.tables |->
            IF db.tables[k].Name = name THEN new ELSE db.tables[k]]]

Rename(names, old, new) == [k \in DOMAIN names |-> IF names[k] = old THEN new ELSE names[k]]

\* ALTER TABLE old RENAME TO new: the table keeps its indexes and triggers,
\* whose definitions follow the new name.
RenamedTable(t, new) ==
    [t EXCEPT !.Name = new,
              !.Indexes = [k \in DOMAIN t.Indexes |-> [t.Indexes[k] EXCEPT !.Table = new]],
              !.Triggers = [k \in DOMAIN t.Triggers |->
                              [t.Triggers[k] EXCEPT !.SQL = [@ EXCEPT ![3] = new]]]]

\* ALTER TABLE t RENAME COLUMN old TO new: position kept; the table's
\* indexes and foreign keys follow the new name.
RenamedColumn(t, old, new) ==
    [t EXCEPT !.Columns = [k \in DOMAIN t.Columns |->
                              IF t.Columns[k].Name = old
                              THEN [t.Columns[k] EXCEPT !.Name = new] ELSE t.Columns[k]],
              !.Indexes = [k \in DOMAIN t.Indexes |->
                              [t.Indexes[k] EXCEPT !.Columns = Rename(@, old, new)]],
              !.ForeignKeys = [k \in DOMAIN t.ForeignKeys |->
                              [t.ForeignKeys[k] EXCEPT !.From = Rename(@, old, new)]]]

\* The database after the engine executed the applicable statement stmt.
\* DROP TABLE removes the table with its indexes and triggers; ADD COLUMN
\* appends the column after the existing ones.
Execute(db, stmt) ==
    CASE stmt[1] = "CREATE TABLE" ->
            [db EXCEPT !.tables = Append(@,
                [Name |-> stmt[2],
                 Columns |-> [k \in DOMAIN stmt[3] |-> ParseColumn(stmt[3][k])],
                 Indexes |-> <<>>, Triggers |-> <<>>,
                 ForeignKeys |-> [k \in DOMAIN stmt[4] |-> ParseForeignKey(stmt[4][k])]])]
      [] stmt[1] = "DROP TABLE" -> [db EXCEPT !.tables = Without(@, stmt[2])]
      [] stmt[1] = "RENAME TABLE" ->
            ReplaceTable(db, stmt[2], LET t == TableOf(db, stmt[2]) IN RenamedTable(t, stmt[3]))
      [] stmt[1] = "INSERT" -> db
      [] stmt[1] = "RENAME COLUMN" ->
            ReplaceTable(db, stmt[2], LET t == TableOf(db, stmt[2]) IN RenamedColumn(t, stmt[3], stmt[4]))
      [] stmt[1] = "DROP COLUMN" ->
            ReplaceTable(db, stmt[2], LET t == TableOf(db, stmt[2]) IN [t EXCEPT !.Columns = Without(@, stmt[3])])
      [] stmt[1] = "ADD COLUMN" ->
            ReplaceTable(db, stmt[2], LET t == TableOf(db, stmt[2]) IN [t EXCEPT !.Columns = Append(@, ParseColumn(stmt[3]))])
      [] stmt[1] = "CREATE INDEX" ->
            ReplaceTable(db, stmt[3], LET t == TableOf(db, stmt[3]) IN [t EXCEPT !.Indexes = Append(@,
                [Table |-> stmt[3], Name |-> stmt[2], Columns |-> stmt[4], Unique |-> stmt[5]])])
      [] stmt[1] = "DROP INDEX" ->
            [db EXCEPT !.tables = [k \in DOMAIN db.tables |->
                [db.tables[k] EXCEPT !.Indexes = Without(@, stmt[2])]]]
      [] stmt[1] = "DROP TRIGGER" ->
            [db EXCEPT !.tables = [k \in DOMAIN db.tables |->
                [db.tables[k] EXCEPT !.Triggers = Without(@, stmt[2])]]]
      [] stmt[1] = "DROP VIEW" -> [db EXCEPT !.views = Without(@, stmt[2])]
      [] stmt[1] = "EXEC" /\ stmt[2][1] = "CREATE TRIGGER" ->
            ReplaceTable(db, stmt[2][3], LET t == TableOf(db, stmt[2][3]) IN [t EXCEPT !.Triggers = Append(@,
                [Name |-> stmt[2][2], SQL |-> stmt[2]])])
      [] stmt[1] = "EXEC" /\ stmt[2][1] = "CREATE VIEW" ->
            [db EXCEPT !.views = Append(@, [Name |-> stmt[2][2], SQL |-> stmt[2]])]

\* Schema equality under the engine's reading: the same tables, each with
\* the same columns in the same order and the same sets of indexes,
\* triggers and foreign keys, and the same views.
SameTable(a, b) ==
    /\ a.Name = b.Name
    /\ a.Columns = b.Columns
    /\ Range(a.Indexes) = Range(b.Indexes)
    /\ Range(a.Triggers) = Range(b.Triggers)
    /\ Range(a.ForeignKeys) = Range(b.ForeignKeys)

SameSchema(a, b) ==
    /\ {a.tables[k].Name : k \in DOMAIN a.tables} = {b.tables[k].Name : k \in DOMAIN b.tables}
    /\ \A i \in DOMAIN a.tables : \A j \in DOMAIN b.tables :
          a.tables[i].Name = b.tables[j].Name => SameTable(a.tables[i], b.tables[j])
    /\ Range(a.views) = Range(b.views)

(***************************************************************************)
(* The databases the tool is run on: pairs <<source, target>>.             *)
(***************************************************************************)
MaxColumns == 2

MaxIndexes == 1

MaxTriggers == 1

MaxForeignKeys == 2

MaxTables == 2

MaxViews == 2

Default0 == [Valid |-> TRUE, String |-> "0"]

\* Declared type, NOT NULL flag and default of a column.
Text == <<"TEXT", FALSE, NullString>>

Integer == <<"INTEGER", FALSE, NullString>>

Varchar == <<"VARCHAR", FALSE, NullString>>

TextNotNullDefault == <<"TEXT", TRUE, Default0>>

ColumnsOf(names, kinds) ==
    {SQLiteColumn(n, k[1], k[2], FALSE, k[3]) : n \in names, k \in kinds}

\* Lists of 0..n elements of S with distinct names.
ListsOf(S, n) ==
    {l \in UNION {[1..m -> S] : m \in 0..n} :
        \A i, j \in DOMAIN l : i # j => l[i].Name # l[j].Name}

\* Column lists of 1..n columns with distinct names.
ColumnLists(columns, n) == ListsOf(columns, n) \ {<<>>}

Table(name, columns, indexes, triggers, foreignKeys) ==
    [Name |-> name, Columns |-> columns, Indexes |-> indexes, Triggers |-> triggers,
     ForeignKeys |-> foreignKeys]

Index(name, table, columns, unique) ==
    [Table |-> table, Name |-> name, Columns |-> columns, Unique |-> unique]

Trigger(name, table, body) ==
    [Name |-> name, SQL |-> <<"CREATE TRIGGER", name, table, body>>]

View(name, body) == [Name |-> name, SQL |-> <<"CREATE VIEW", name, body>>]

ForeignKey(from, table, to, onDelete) ==
    [Table |-> table, From |-> from, To |-> to, OnUpdate |-> "NO ACTION", OnDelete |-> onDelete]

Database(tables, views) == [tables |-> tables, views |-> views]

EmptyDatabase == Database(<<>>, <<>>)

OneTable(columns) == Database(<<Table("t", columns, <<>>, <<>>, <<>>)>>, <<>>)

\* One table "t" on both sides: any columns of three names and three types.
ColumnPairs ==
    LET lists == ColumnLists(ColumnsOf({"a", "b", "c"}, {Text, Integer, Varchar}), MaxColumns)
    IN  {<<OneTable(s), OneTable(t)>> : s \in lists, t \in lists}

\* One table "t" on both sides: columns that differ in NOT NULL and default.
AttributePairs ==
    LET lists == ColumnLists(ColumnsOf({"a", "b"}, {Text, TextNotNullDefault, Integer}), MaxColumns)
    IN  {<<OneTable(s), OneTable(t)>> : s \in lists, t \in lists}

\* One table "t" on both sides whose column names are disjoint.
RenamePairs ==
    {<<OneTable(s), OneTable(t)>> :
        s \in ColumnLists(ColumnsOf({"a", "b"}, {Text, Integer}), MaxColumns),
        t \in ColumnLists(ColumnsOf({"c", "d"}, {Text, Integer}), MaxColumns)}

\* One table "t" on both sides, with indexes and triggers.
DependentPairs ==
    LET dbs == {Database(<<Table("t", c, i, g, <<>>)>>, <<>>) :
                  c \in {<<SQLiteColumn("a", "TEXT", FALSE, FALSE, NullString)>>,
                         <<SQLiteColumn("a", "INTEGER", FALSE, FALSE, NullString)>>,
                         <<SQLiteColumn("a", "TEXT", FALSE, FALSE, NullString),
                           SQLiteColumn("b", "TEXT", FALSE, FALSE, NullString)>>},
                  i \in ListsOf({Index("i", "t", <<"a">>, FALSE), Index("i", "t", <<"a">>, TRUE),
                                 Index("j", "t", <<"a">>, FALSE)}, MaxIndexes),
                  g \in ListsOf({Trigger("r", "t", "x"), Trigger("r", "t", "y"),
                                 Trigger("s", "t", "x")}, MaxTriggers)}
    IN  {<<s, t>> : s \in dbs, t \in dbs}

\* Lists of 0..n distinct elements of S.
DistinctLists(S, n) ==
    {l \in UNION {[1..m -> S] : m \in 0..n} : \A i, j \in DOMAIN l : i # j => l[i] # l[j]}

\* Tables "u" and "t", "t" with foreign keys to "u".
ForeignKeyPairs ==
    LET u == Table("u", <<SQLiteColumn("a", "TEXT", FALSE, FALSE, NullString)>>, <<>>, <<>>, <<>>)
        dbs == {Database(<<u, Table("t", <<SQLiteColumn("a", c, FALSE, FALSE, NullString),
                                          SQLiteColumn("b", "TEXT", FALSE, FALSE, NullString)>>,
                                    i, <<>>, f)>>, <<>>) :
                  c \in {"TEXT", "INTEGER"},
                  i \in ListsOf({Index("i", "t", <<"b">>, FALSE)}, MaxIndexes),
                  f \in DistinctLists({ForeignKey(<<"a">>, "u", <<"a">>, "NO ACTION"),
                                       ForeignKey(<<"a">>, "u", <<"a">>, "CASCADE"),
                                       ForeignKey(<<"b">>, "u", <<"a">>, "NO ACTION")},
                                      MaxForeignKeys)}
    IN  {<<s, t>> : s \in dbs, t \in dbs}

\* Zero to MaxTables tables among "t", "u" and "_t_temp"; an index name is
\* used once in a database.
TablePairs ==
    LET tables == {Table(n, <<SQLiteColumn("a", c, FALSE, FALSE, NullString)>>,
                         IF i THEN <<Index("i", n, <<"a">>, FALSE)>> ELSE <<>>, <<>>, <<>>) :
                     n \in {"t", "u", "_t_temp"}, c \in {"TEXT", "INTEGER"}, i \in BOOLEAN}
        dbs == {Database(l, <<>>) : l \in
                  {l \in ListsOf(tables, MaxTables) :
                      \A i, j \in DOMAIN l : i # j => l[i].Indexes = <<>> \/ l[j].Indexes = <<>>}}
    IN  {<<s, t>> : s \in dbs, t \in dbs}

\* One table "t" on both sides, and views.
ViewPairs ==
    LET dbs == {Database(<<Table("t", <<SQLiteColumn("a", "TEXT", FALSE, FALSE, NullString)>>,
                                 <<>>, <<>>, <<>>)>>, v) :
                  v \in ListsOf({View("v", "x"), View("v", "y"), View("w", "x"),
                                 View("z", "x")}, MaxViews)}
    IN  {<<s, t>> : s \in dbs, t \in dbs}

\* Table "t" whose foreign keys may be declared twice.
DuplicateForeignKeyPairs ==
    LET a == ForeignKey(<<"a">>, "u", <<"a">>, "NO ACTION")
        b == ForeignKey(<<"a">>, "u", <<"a">>, "CASCADE")
        u == Table("u", <<SQLiteColumn("a", "TEXT", FALSE, FALSE, NullString)>>, <<>>, <<>>, <<>>)
        dbs == {Database(<<u, Table("t", <<SQLiteColumn("a", "TEXT", FALSE, FALSE, NullString)>>,
                                    <<>>, <<>>, f)>>, <<>>) :
                  f \in {<<a, a>>, <<a, b>>, <<b, a>>, <<b, b>>}}
    IN  {<<s, t>> : s \in dbs, t \in dbs}

\* Zero to MaxTables tables among "t" (with an index and a trigger), "u"
\* and "w", and at most one view.
SchemaPairs ==
    LET a == SQLiteColumn("a", "TEXT", FALSE, FALSE, NullString)
        tables == {Table("t", <<a>>, <<Index("i", "t", <<"a">>, FALSE)>>,
                         <<Trigger("r", "t", "x")>>, <<>>),
                   Table("u", <<a>>, <<>>, <<>>, <<>>),
                   Table("w", <<a>>, <<>>, <<>>, <<>>)}
        dbs == {Database(l, v) : l \in ListsOf(tables, MaxTables),
                                 v \in {<<>>, <<View("v", "x")>>}}
    IN  {<<s, t>> : s \in dbs, t \in dbs}

\* One table "t" on both sides whose column "a" changes its type, next to a
\* source column "b" and a target column "c" with or without a default.
RebuildPairs ==
    LET kinds == {Text, TextNotNullDefault}
        a(type) == SQLiteColumn("a", type, FALSE, FALSE, NullString)
    IN  {<<OneTable(<<a("INTEGER"), b>>), OneTable(<<a("TEXT")>> \o c)>> :
            b \in ColumnsOf({"b"}, kinds),
            c \in {<<>>} \cup {<<x>> : x \in ColumnsOf({"c"}, kinds)}}

DatabasePairs ==
    ColumnPairs \cup AttributePairs \cup RenamePairs \cup DependentPairs
        \cup ForeignKeyPairs \cup TablePairs \cup ViewPairs
        \cup DuplicateForeignKeyPairs \cup SchemaPairs \cup RebuildPairs

(***************************************************************************)
(* The program: main and action of the command line, the adapter           *)
(* operations NewSQLiteDriver, Diff and Close, and the execution of the    *)
(* printed script on a copy of the target database.                        *)
(***************************************************************************)
VARIABLES
    pc,         \* position of the command line: "main", "driver" (adapter
                \* constructed), "diffed", "returned" (action returned), "exited"
    source,     \* the source database
    target,     \* the target database
    srcConn,    \* SourceDatabaseConnection: "none", "open" or "closed"
    tgtConn,    \* TargetDatabaseConnection: "none", "open" or "closed"
    run,        \* what the call of Diff read and returned (NoRun before), and
                \* the kind of the catalog failure it met ("none" without)
    actionErr,  \* "nil", or the kind of error action returned
    stdout,     \* what was printed on standard output
    exitCode,   \* exit status of the process ("none" while it runs)
    db,         \* the database the printed script is executed on
    pos,        \* number of statements of the script executed on db
    execErr     \* whether the engine rejected the statement at pos + 1

vars == <<pc, source, target, srcConn, tgtConn, run, actionErr, stdout, exitCode,
          db, pos, execErr>>

NoRun ==
    [sourceTables |-> <<>>, targetTables |-> <<>>, sourceViews |-> <<>>,
     targetViews |-> <<>>, str |-> <<>>, err |-> FALSE, fault |-> "none", done |-> FALSE]

Init ==
    /\ pc = "main"
    /\ source = EmptyDatabase
    /\ target = EmptyDatabase
    /\ srcConn = "none"
    /\ tgtConn = "none"
    /\ run = NoRun
    /\ actionErr = "nil"
    /\ stdout = <<>>
    /\ exitCode = "none"
    /\ db = EmptyDatabase
    /\ pos = 0
    /\ execErr = FALSE

\* action: a positional argument is missing.
UsageError ==
    /\ pc = "main"
    /\ \E sourceDatabaseURL, targetDatabaseURL \in {"", "path"} :
          sourceDatabaseURL = "" \/ targetDatabaseURL = ""
    /\ pc' = "returned"
    /\ actionErr' = "usage"
    /\ UNCHANGED <<source, target, srcConn, tgtConn, run, stdout, exitCode, db, pos, execErr>>

\* main / action: --driver names something else than sqlite3.
UnsupportedDriver ==
    /\ pc = "main"
    /\ \E driverFlag \in {"", "sqlite3", "postgres"} : driverFlag \notin {"", "sqlite3"}
    /\ pc' = "returned"
    /\ actionErr' = "driver"
    /\ UNCHANGED <<source, target, srcConn, tgtConn, run, stdout, exitCode, db, pos, execErr>>

\* NewSQLiteDriver, called by action on the two paths.  The databases
\* found at the paths are a pair of pairs (they are read only through an
\* adapter that was constructed); sourceOpens and targetOpens tell whether
\* sql.Open succeeds.
NewSQLiteDriver(pairs) ==
    /\ pc = "main"
    /\ \E sourceOpens, targetOpens \in BOOLEAN :
          /\ srcConn' = IF sourceOpens THEN "open" ELSE "none"
          /\ tgtConn' = IF sourceOpens /\ targetOpens THEN "open" ELSE "none"
          /\ pc' = IF sourceOpens /\ targetOpens THEN "driver" ELSE "returned"
          /\ actionErr' = IF sourceOpens /\ targetOpens THEN "nil" ELSE "open"
          /\ IF sourceOpens /\ targetOpens
             THEN \E pair \in pairs :
                     source' = pair[1] /\ target' = pair[2] /\ db' = pair[2]
             ELSE UNCHANGED <<source, target, db>>
    /\ UNCHANGED <<run, stdout, exitCode, pos, execErr>>

\* driver.Diff(ctx) in action, and fmt.Println(diff) when it succeeded.
DiffAndPrint(fault) ==
    /\ pc = "driver"
    /\ \E r \in Diff(source, target, fault) :
          /\ run' = [sourceTables |-> r.sourceTables, targetTables |-> r.targetTables,
                     sourceViews |-> r.sourceViews, targetViews |-> r.targetViews,
                     str |-> r.str, err |-> r.err, fault |-> fault.kind, done |-> TRUE]
          /\ actionErr' = IF r.err THEN "diff" ELSE "nil"
          /\ stdout' = IF r.err THEN stdout ELSE Fprintln(stdout, r.str)
    /\ pc' = "diffed"
    /\ UNCHANGED <<source, target, srcConn, tgtConn, exitCode, db, pos, execErr>>

\* SQLiteDriver.Close, deferred by action.  sourceFails and targetFails
\* tell whether the two sql.DB.Close calls return an error; a sql.DB is
\* closed by Close either way.
Close(sourceFails, targetFails) ==
    /\ pc = "diffed"
    /\ srcConn' = "closed"
    /\ tgtConn' = IF sourceFails THEN tgtConn ELSE "closed"
    /\ pc' = "returned"
    /\ UNCHANGED <<source, target, run, actionErr, stdout, exitCode, db, pos, execErr>>

\* main: cmd.Run returns (its error is not read) and main returns.
Exit ==
    /\ pc = "returned"
    /\ exitCode' = 0
    /\ pc' = "exited"
    /\ UNCHANGED <<source, target, srcConn, tgtConn, run, actionErr, stdout, db, pos, execErr>>

\* The printed script.
Script == Statements(stdout)

\* The next statement of the printed script is executed on db; execution
\* stops at the first statement the engine rejects.
ExecOnTarget ==
    /\ pc = "exited"
    /\ ~execErr
    /\ pos < Len(Script)
    /\ IF Applicable(db, Script[pos + 1])
       THEN /\ db' = Execute(db, Script[pos + 1])
            /\ pos' = pos + 1
            /\ UNCHANGED execErr
       ELSE /\ execErr' = TRUE
            /\ UNCHANGED <<db, pos>>
    /\ UNCHANGED <<pc, source, target, srcConn, tgtConn, run, actionErr, stdout, exitCode>>

Next ==
    \/ UsageError
    \/ UnsupportedDriver
    \/ NewSQLiteDriver(DatabasePairs)
    \/ DiffAndPrint(NoFault)
    \/ \E sourceFails, targetFails \in BOOLEAN : Close(sourceFails, targetFails)
    \/ Exit
    \/ ExecOnTarget

Spec == Init /\ [][Next]_vars

(***************************************************************************)
(* The same program when one catalog query of the Diff call may fail.      *)
(***************************************************************************)
MaxAfter == 1

Min(m, n) == IF m < n THEN m ELSE n

\* The catalog queries that introspecting database d over conn issues, each
\* with the number of rows it yields.
Queries(d, conn) ==
    {[q |-> Query(conn, "tables", ""), rows |-> Len(d.tables)],
     [q |-> Query(conn, "views", ""), rows |-> Len(d.views)]}
    \cup {[q |-> Query(conn, "table_info", d.tables[k].Name),
           rows |-> Len(d.tables[k].Columns)] : k \in DOMAIN d.tables}
    \cup {[q |-> Query(conn, "index_list", d.tables[k].Name),
           rows |-> Len(d.tables[k].Indexes)] : k \in DOMAIN d.tables}
    \cup {[q |-> Query(conn, "triggers", d.tables[k].Name),
           rows |-> Len(d.tables[k].Triggers)] : k \in DOMAIN d.tables}
    \cup {[q |-> Query(conn, "foreign_key_list", d.tables[k].Name),
           rows |-> Len(ForeignKeyRows(d.tables[k]))] : k \in DOMAIN d.tables}
    \cup UNION {{[q |-> Query(conn, "index_info", d.tables[k].Indexes[i].Name),
                  rows |-> Len(d.tables[k].Indexes[i].Columns)] :
                    i \in DOMAIN d.tables[k].Indexes} : k \in DOMAIN d.tables}

Fault(q, kind, after) ==
    [conn |-> q.conn, query |-> q.query, object |-> q.object, kind |-> kind, after |-> after]

\* The ways one query of the Diff call can fail: QueryContext fails, Scan
\* fails on one of the first MaxAfter + 1 rows, or the iteration fails
\* after at most MaxAfter rows.
Faults ==
    LET queries == Queries(source, "source") \cup Queries(target, "target") IN
    {NoFault}
    \cup {Fault(x.q, "query", 0) : x \in queries}
    \cup UNION {{Fault(x.q, "scan", n) : n \in 0..Min(MaxAfter, x.rows - 1)} : x \in queries}
    \cup UNION {{Fault(x.q, "rows", n) : n \in 0..Min(MaxAfter, x.rows)} : x \in queries}

\* A table "t" with at most one index, trigger and foreign key, and at
\* most one view.
FaultPairs ==
    LET a == SQLiteColumn("a", "TEXT", FALSE, FALSE, NullString)
        b == SQLiteColumn("b", "TEXT", FALSE, FALSE, NullString)
        dbs == {Database(<<Table("t", c, i, g, f)>>, v) :
                  c \in {<<a>>, <<a, b>>},
                  i \in ListsOf({Index("i", "t", <<"a">>, FALSE)}, MaxIndexes),
                  g \in ListsOf({Trigger("r", "t", "x")}, MaxTriggers),
                  f \in DistinctLists({ForeignKey(<<"a">>, "u", <<"a">>, "CASCADE")}, MaxForeignKeys),
                  v \in ListsOf({View("v", "x")}, MaxViews)}
    IN  {<<s, t>> : s \in dbs, t \in dbs}

NextFaults ==
    \/ UsageError
    \/ UnsupportedDriver
    \/ NewSQLiteDriver(FaultPairs)
    \/ \E fault \in Faults : DiffAndPrint(fault)
    \/ \E sourceFails, targetFails \in BOOLEAN : Close(sourceFails, targetFails)
    \/ Exit
    \/ ExecOnTarget

SpecFaults == Init /\ [][NextFaults]_vars

(***************************************************************************)
(* PostgreSQL: PostgresColumn, PostgresConstraint, PostgresIndex,          *)
(* PostgresTrigger, PostgresView, PostgresTable and PostgresDriver.        *)
(* A table is [Name, Columns, Indexes, Constraints, Triggers]; constraints,*)
(* indexes, triggers and views are [Name, Def], Def the catalog's          *)
(* definition string.                                                      *)
(***************************************************************************)
PostgresColumn(name, type, notNull, default) ==
    [Name |-> name, Type |-> type, NotNull |-> notNull, Default |-> default]

\* PostgresColumn.HasEqualAttributes
PostgresHasEqualAttributes(c, other) == [c EXCEPT !.Name = other.Name] = other

\* PostgresColumn.String
PostgresColumnString(c) ==
    <<c.Name, c.Type, c.NotNull, IF c.Default.Valid THEN <<c.Default.String>> ELSE <<>> >>

\* PostgresConstraint.String: CONSTRAINT "name" def
PostgresConstraintString(c) == <<c.Name, c.Def>>

\* PostgresIndex.String and PostgresTrigger.String: the definition and ";".
PostgresIndexString(i) == ExecSQL(i.Def)

PostgresTriggerString(g) == ExecSQL(g.Def)

\* PostgresView.String
PostgresViewString(v) == <<"CREATE VIEW AS", v.Name, v.Def>>

\* PostgresTable.StringCreateTable
PostgresStringCreateTable(t) ==
    << <<"CREATE TABLE", t.Name,
         [k \in DOMAIN t.Columns |-> PostgresColumnString(t.Columns[k])],
         [k \in DOMAIN t.Constraints |-> PostgresConstraintString(t.Constraints[k])]>> >>

\* PostgresTable.String
PostgresTableString(t) ==
    PostgresStringCreateTable(t)
        \o Concat([k \in DOMAIN t.Indexes |-> <<NL, PostgresIndexString(t.Indexes[k])>>])
        \o Concat([k \in DOMAIN t.Triggers |-> <<NL, PostgresTriggerString(t.Triggers[k])>>])

\* PostgresDiffColumn without the "Default change" section.
PostgresDiffColumnWithoutDefault(t, other, sourceColumn) ==
    IF ~HasName(other.Columns, sourceColumn.Name)
    THEN << <<"ADD COLUMN", t.Name, PostgresColumnString(sourceColumn)>>, NL >>
    ELSE LET targetColumn == ByName(other.Columns, sourceColumn.Name) IN
         (IF sourceColumn.Type # targetColumn.Type
          THEN << <<"ALTER TYPE", t.Name, sourceColumn.Name, sourceColumn.Type>>, NL >>
          ELSE <<>>)
      \o (IF sourceColumn.NotNull # targetColumn.NotNull
          THEN IF sourceColumn.NotNull
               THEN << <<"SET NOT NULL", t.Name, sourceColumn.Name>>, NL >>
               ELSE << <<"DROP NOT NULL", t.Name, sourceColumn.Name>>, NL >>
          ELSE <<>>)

\* PostgresTable.DiffTable, "Added or modified columns": one source column.
PostgresDiffColumn(t, other, sourceColumn) ==
    IF ~HasName(other.Columns, sourceColumn.Name)
    THEN << <<"ADD COLUMN", t.Name, PostgresColumnString(sourceColumn)>>, NL >>
    ELSE LET targetColumn == ByName(other.Columns, sourceColumn.Name) IN
         IF PostgresHasEqualAttributes(sourceColumn, targetColumn) THEN <<>>
         ELSE (IF sourceColumn.Type # targetColumn.Type
               THEN << <<"ALTER TYPE", t.Name, sourceColumn.Name, sourceColumn.Type>>, NL >>
               ELSE <<>>)
           \o (IF sourceColumn.NotNull # targetColumn.NotNull
               THEN IF sourceColumn.NotNull
                    THEN << <<"SET NOT NULL", t.Name, sourceColumn.Name>>, NL >>
                    ELSE << <<"DROP NOT NULL", t.Name, sourceColumn.Name>>, NL >>
               ELSE <<>>)
           \o (IF sourceColumn.Default # targetColumn.Default
               THEN IF sourceColumn.Default.Valid
                    THEN << <<"SET DEFAULT", t.Name, sourceColumn.Name,
                              sourceColumn.Default.String>>, NL >>
                    ELSE << <<"DROP DEFAULT", t.Name, sourceColumn.Name>>, NL >>
               ELSE <<>>)

\* A variant of the two column loops that detects renames the way the
\* SQLite adapter does: a source-only column with the attributes of a
\* target-only column is renamed instead of added.
PostgresDiffColumnsDetectingRenames(t, other) ==
    Concat([k \in DOMAIN t.Columns |->
        LET old == SelectSeq(other.Columns, LAMBDA d :
                      ~HasName(t.Columns, d.Name) /\ PostgresHasEqualAttributes(d, t.Columns[k]))
        IN  IF ~HasName(other.Columns, t.Columns[k].Name) /\ old # <<>>
            THEN << <<"RENAME COLUMN", t.Name, Head(old).Name, t.Columns[k].Name>>, NL >>
            ELSE PostgresDiffColumn(t, other, t.Columns[k])])
    \o Concat([k \in DOMAIN other.Columns |->
            IF ~HasName(t.Columns, other.Columns[k].Name)
            THEN << <<"DROP COLUMN", t.Name, other.Columns[k].Name>>, NL >>
            ELSE <<>>])

\* PostgresTable.DiffTable, the two column loops.
PostgresDiffColumns(t, other) ==
    Concat([k \in DOMAIN t.Columns |-> PostgresDiffColumn(t, other, t.Columns[k])])
    \o Concat([k \in DOMAIN other.Columns |->
            IF ~HasName(t.Columns, other.Columns[k].Name)
            THEN << <<"DROP COLUMN", t.Name, other.Columns[k].Name>>, NL >>
            ELSE <<>>])

\* PostgresDiffConstraints comparing the type codes instead of the definitions.
PostgresDiffConstraintsComparingType(t, other) ==
    Concat([k \in DOMAIN t.Constraints |->
        LET c == t.Constraints[k] IN
        IF ~HasName(other.Constraints, c.Name)
        THEN << <<"ADD CONSTRAINT", t.Name, PostgresConstraintString(c)>>, NL >>
        ELSE IF c.Type # ByName(other.Constraints, c.Name).Type
        THEN << <<"DROP CONSTRAINT", t.Name, ByName(other.Constraints, c.Name).Name>>, NL,
                <<"ADD CONSTRAINT", t.Name, PostgresConstraintString(c)>>, NL >>
        ELSE <<>>])
    \o Concat([k \in DOMAIN other.Constraints |->
            IF ~HasName(t.Constraints, other.Constraints[k].Name)
            THEN << <<"DROP CONSTRAINT", t.Name, other.Constraints[k].Name>>, NL >>
            ELSE <<>>])

\* PostgresTable.DiffTable, "Constraints".
PostgresDiffConstraints(t, other) ==
    Concat([k \in DOMAIN t.Constraints |->
        LET c == t.Constraints[k] IN
        IF ~HasName(other.Constraints, c.Name)
        THEN << <<"ADD CONSTRAINT", t.Name, PostgresConstraintString(c)>>, NL >>
        ELSE IF c.Def # ByName(other.Constraints, c.Name).Def
        THEN << <<"DROP CONSTRAINT", t.Name, ByName(other.Constraints, c.Name).Name>>, NL,
                <<"ADD CONSTRAINT", t.Name, PostgresConstraintString(c)>>, NL >>
        ELSE <<>>])
    \o Concat([k \in DOMAIN other.Constraints |->
            IF ~HasName(t.Constraints, other.Constraints[k].Name)
            THEN << <<"DROP CONSTRAINT", t.Name, other.Constraints[k].Name>>, NL >>
            ELSE <<>>])

\* PostgresTable.DiffTable, "Indexes".
PostgresDiffIndexes(t, other) ==
    Concat([k \in DOMAIN t.Indexes |->
        LET i == t.Indexes[k] IN
        IF ~HasName(other.Indexes, i.Name) THEN <<PostgresIndexString(i), NL>>
        ELSE IF i.Def # ByName(other.Indexes, i.Name).Def
        THEN << <<"DROP INDEX", ByName(other.Indexes, i.Name).Name>>, NL,
                PostgresIndexString(i), NL >>
        ELSE <<>>])
    \o Concat([k \in DOMAIN other.Indexes |->
            IF ~HasName(t.Indexes, other.Indexes[k].Name)
            THEN << <<"DROP INDEX", other.Indexes[k].Name>>, NL >>
            ELSE <<>>])

\* PostgresTable.DiffTable, "Triggers".
PostgresDiffTriggers(t, other) ==
    Concat([k \in DOMAIN t.Triggers |->
        LET g == t.Triggers[k] IN
        IF ~HasName(other.Triggers, g.Name) THEN <<PostgresTriggerString(g), NL>>
        ELSE IF g.Def # ByName(other.Triggers, g.Name).Def
        THEN << <<"DROP TRIGGER ON", ByName(other.Triggers, g.Name).Name, t.Name>>, NL,
                PostgresTriggerString(g), NL >>
        ELSE <<>>])
    \o Concat([k \in DOMAIN other.Triggers |->
            IF ~HasName(t.Triggers, other.Triggers[k].Name)
            THEN << <<"DROP TRIGGER ON", other.Triggers[k].Name, t.Name>>, NL >>
            ELSE <<>>])

\* PostgresTable.DiffTable
PostgresDiffTable(t, other) ==
    TrimSpace(PostgresDiffColumns(t, other) \o PostgresDiffConstraints(t, other)
                \o PostgresDiffIndexes(t, other) \o PostgresDiffTriggers(t, other))

\* PostgresDriver.DiffViews on the two view lists.
PostgresDiffViews(sourceViews, targetViews) ==
    TrimSpace(
        Concat([k \in DOMAIN sourceViews |->
            LET v == sourceViews[k] IN
            IF ~HasName(targetViews, v.Name) THEN <<PostgresViewString(v), NL>>
            ELSE IF v.Def # ByName(targetViews, v.Name).Def
            THEN << <<"DROP VIEW", ByName(targetViews, v.Name).Name>>, NL,
                    PostgresViewString(v), NL >>
            ELSE <<>>])
        \o Concat([k \in DOMAIN targetViews |->
            IF ~HasName(sourceViews, targetViews[k].Name)
            THEN << <<"DROP VIEW", targetViews[k].Name>>, NL >>
            ELSE <<>>]))

\* PostgresDriver.DiffTables on the two table lists and view lists (it ends
\* with the views section).
PostgresDiffTables(sourceTables, targetTables, sourceViews, targetViews) ==
    TrimSpace(
        Concat([k \in DOMAIN sourceTables |->
            IF ~HasName(targetTables, sourceTables[k].Name)
            THEN Fprintln(<<>>, PostgresTableString(sourceTables[k]))
            ELSE Fprintln(<<>>, PostgresDiffTable(sourceTables[k],
                                                  ByName(targetTables, sourceTables[k].Name)))])
        \o Concat([k \in DOMAIN targetTables |->
            IF ~HasName(sourceTables, targetTables[k].Name)
            THEN << <<"DROP TABLE", targetTables[k].Name>>, NL >>
            ELSE <<>>])
        \o Fprintln(<<>>, PostgresDiffViews(sourceViews, targetViews)))

\* PostgresDriver.Diff when every catalog query succeeds: GetTables and
\* GetViews return the catalog's tables and views.
PostgresDiff(src, tgt) ==
    [sourceTables |-> src.tables, targetTables |-> tgt.tables,
     sourceViews |-> src.views, targetViews |-> tgt.views,
     str |-> TrimSpace(Fprintln(<<>>, PostgresDiffTables(src.tables, tgt.tables,
                                                          src.views, tgt.views))),
     err |-> FALSE]

(***************************************************************************)
(* The PostgreSQL adapter used as a library: NewPostgresDriver, Diff,      *)
(* Close.  The databases are catalogs of PostgresTable and PostgresView.   *)
(***************************************************************************)
PostgresTable(name, columns, indexes, constraints, triggers) ==
    [Name |-> name, Columns |-> columns, Indexes |-> indexes,
     Constraints |-> constraints, Triggers |-> triggers]

PostgresConstraint(name, type, def) == [Name |-> name, Type |-> type, Def |-> def]

PostgresIndex(name, def) == [Name |-> name, Def |-> def]

PostgresTrigger(name, def) == [Name |-> name, Def |-> def]

PostgresView(name, def) == [Name |-> name, Def |-> def]

PostgresCatalog(tables, views) == [tables |-> tables, views |-> views]

\* One table t whose column a takes every combination of type, NOT NULL
\* and default, with or without a second column b.
PostgresColumnLists ==
    LET as == {PostgresColumn("a", type, notNull, default) :
                 type \in {"text", "integer"}, notNull \in BOOLEAN,
                 default \in {NullString, [Valid |-> TRUE, String |-> "0"]}}
        b == PostgresColumn("b", "text", FALSE, NullString)
    IN {<<a>> : a \in as} \cup {<<a, b>> : a \in as}

PostgresColumnPairs ==
    LET dbs == {PostgresCatalog(<<PostgresTable("t", cs, <<>>, <<>>, <<>>)>>, <<>>) :
                  cs \in PostgresColumnLists}
    IN dbs \X dbs

\* One table t with at most one constraint, one index and one trigger, each
\* under one of two names and, for the first name, one of two definitions.
PostgresConstraintLists ==
    {<<>>, <<PostgresConstraint("c", "c", "x")>>, <<PostgresConstraint("c", "c", "y")>>,
     <<PostgresConstraint("d", "u", "x")>>}

PostgresIndexLists ==
    {<<>>, <<PostgresIndex("i", <<"CREATE INDEX", "i", "t", "x">>)>>,
     <<PostgresIndex("i", <<"CREATE INDEX", "i", "t", "y">>)>>,
     <<PostgresIndex("j", <<"CREATE INDEX", "j", "t", "x">>)>>}

PostgresTriggerLists ==
    {<<>>, <<PostgresTrigger("r", <<"CREATE TRIGGER", "r", "t", "x">>)>>,
     <<PostgresTrigger("r", <<"CREATE TRIGGER", "r", "t", "y">>)>>,
     <<PostgresTrigger("s", <<"CREATE TRIGGER", "s", "t", "x">>)>>}

PostgresDependentPairs ==
    LET dbs == {PostgresCatalog(
                    <<PostgresTable("t",
                        <<PostgresColumn("a", type, FALSE, NullString)>>,
                        is, cs, gs)>>, <<>>) :
                  type \in {"text", "integer"}, is \in PostgresIndexLists,
                  cs \in PostgresConstraintLists, gs \in PostgresTriggerLists}
    IN dbs \X dbs

\* At most MaxTables tables among t and u, and at most one view.
PostgresTablePairs ==
    LET t == PostgresTable("t", <<PostgresColumn("a", "text", TRUE, [Valid |-> TRUE, String |-> "0"])>>,
                           <<PostgresIndex("i", <<"CREATE INDEX", "i", "t", "x">>)>>,
                           <<PostgresConstraint("c", "c", "x")>>,
                           <<PostgresTrigger("r", <<"CREATE TRIGGER", "r", "t", "x">>)>>)
        u == PostgresTable("u", <<PostgresColumn("a", "text", FALSE, NullString)>>,
                           <<>>, <<>>, <<>>)
        tables == {ts \in {<<>>, <<t>>, <<u>>, <<t, u>>, <<u, t>>} : Len(ts) <= MaxTables}
        views == {<<>>, <<PostgresView("v", "x")>>, <<PostgresView("v", "y")>>,
                  <<PostgresView("w", "x")>>}
        dbs == {PostgresCatalog(ts, vs) : ts \in tables, vs \in views}
    IN dbs \X dbs

\* One table t with column a, a source column b and a target column c that
\* take every combination of type, NOT NULL and default.
PostgresRenamePairs ==
    LET a == PostgresColumn("a", "text", FALSE, NullString)
        named(n) == {PostgresColumn(n, type, notNull, default) :
                       type \in {"text", "integer"}, notNull \in BOOLEAN,
                       default \in {NullString, [Valid |-> TRUE, String |-> "0"]}}
    IN  {<<PostgresCatalog(<<PostgresTable("t", <<a, b>>, <<>>, <<>>, <<>>)>>, <<>>),
           PostgresCatalog(<<PostgresTable("t", <<a, c>>, <<>>, <<>>, <<>>)>>, <<>>)>> :
            b \in named("b"), c \in named("c")}

PostgresPairs ==
    PostgresColumnPairs \cup PostgresDependentPairs \cup PostgresTablePairs
        \cup PostgresRenamePairs

\* NewPostgresDriver: sql.Open on the two connection strings; sourceOpens
\* and targetOpens tell whether it succeeds.
NewPostgresDriver(pairs) ==
    /\ pc = "main"
    /\ \E sourceOpens, targetOpens \in BOOLEAN :
          /\ srcConn' = IF sourceOpens THEN "open" ELSE "none"
          /\ tgtConn' = IF sourceOpens /\ targetOpens THEN "open" ELSE "none"
          /\ pc' = IF sourceOpens /\ targetOpens THEN "driver" ELSE "returned"
          /\ actionErr' = IF sourceOpens /\ targetOpens THEN "nil" ELSE "open"
          /\ IF sourceOpens /\ targetOpens
             THEN \E pair \in pairs : source' = pair[1] /\ target' = pair[2]
             ELSE UNCHANGED <<source, target>>
    /\ UNCHANGED <<run, stdout, exitCode, db, pos, execErr>>

\* PostgresDriver.Diff
PostgresDriverDiff ==
    /\ pc = "driver"
    /\ LET r == PostgresDiff(source, target) IN
          run' = [sourceTables |-> r.sourceTables, targetTables |-> r.targetTables,
                  sourceViews |-> r.sourceViews, targetViews |-> r.targetViews,
                  str |-> r.str, err |-> r.err, fault |-> "none", done |-> TRUE]
    /\ pc' = "diffed"
    /\ UNCHANGED <<source, target, srcConn, tgtConn, actionErr, stdout, exitCode, db, pos,
                   execErr>>

\* PostgresDriver.Close; sourceFails and targetFails tell whether the two
\* sql.DB.Close calls return an error.
PostgresClose(sourceFails, targetFails) ==
    /\ pc = "diffed"
    /\ srcConn' = "closed"
    /\ tgtConn' = IF sourceFails THEN tgtConn ELSE "closed"
    /\ pc' = "returned"
    /\ UNCHANGED <<source, target, run, actionErr, stdout, exitCode, db, pos, execErr>>

NextPostgres ==
    \/ NewPostgresDriver(PostgresPairs)
    \/ PostgresDriverDiff
    \/ \E sourceFails, targetFails \in BOOLEAN : PostgresClose(sourceFails, targetFails)

SpecPostgres == Init /\ [][NextPostgres]_vars

(***************************************************************************)
(* Properties.                                                             *)
(***************************************************************************)
\* Diff returned a string and a nil error.
Diffed == run.done /\ ~run.err

\* The statements of the string Diff returned.
Emitted == Statements(run.str)

\* The printed script was executed to its end or to a rejected statement.
Executed == pc = "exited" /\ Diffed /\ (execErr \/ pos = Len(Script))

\* C1: Diff of a schema against itself returns the empty string: whenever
\* the source and the target database hold the same schema, Diff returns ""
\* and a nil error.
C1_DiffOfEqualSchemasIsEmpty ==
    (run.done /\ source = target) => (~run.err /\ run.str = <<>>)

\* Diff has run on two equal schemas whose table has an index and a trigger.
C1_Witness ==
    /\ run.done
    /\ source = target
    /\ \E k \in DOMAIN source.tables :
          source.tables[k].Indexes # <<>> /\ source.tables[k].Triggers # <<>>

\* C2: executing the statements of diff(S, T) in order on a database that
\* starts equal to T ends in a schema equal to S: no statement is rejected
\* and the final schema has the same tables (same columns in the same
\* order, same indexes, triggers and foreign keys) and the same views.
C2_ScriptTurnsTargetIntoSource ==
    Executed => (~execErr /\ SameSchema(db, source))

\* C3: every statement of diff(S, T) is applicable when the script is
\* executed top-to-bottom starting from T: the engine rejects none.
C3_EveryStatementApplicable == ~execErr

\* Whether statement stmt of diff(S, T) names the objects C4 allows: a DROP
\* names an object of T, a CREATE an object of S or a shadow table.
NamesAllowedObject(stmt) ==
    CASE stmt[1] = "DROP TABLE" -> TableExists(target, stmt[2])
      [] stmt[1] = "DROP INDEX" -> IndexExists(target, stmt[2])
      [] stmt[1] = "DROP TRIGGER" -> TriggerExists(target, stmt[2])
      [] stmt[1] = "DROP VIEW" -> ViewExists(target, stmt[2])
      [] stmt[1] = "DROP COLUMN" ->
            TableExists(target, stmt[2]) /\ stmt[3] \in ColumnNames(TableOf(target, stmt[2]))
      [] stmt[1] = "CREATE TABLE" ->
            \/ TableExists(source, stmt[2])
            \/ \E k \in DOMAIN source.tables : stmt[2] = TempName(source.tables[k].Name)
      [] stmt[1] = "CREATE INDEX" -> IndexExists(source, stmt[2])
      [] stmt[1] = "EXEC" /\ stmt[2][1] = "CREATE TRIGGER" -> TriggerExists(source, stmt[2][2])
      [] stmt[1] = "EXEC" /\ stmt[2][1] = "CREATE VIEW" -> ViewExists(source, stmt[2][2])
      [] OTHER -> TRUE

\* C4: in diff(S, T) every DROP statement names an object present in T and
\* every CREATE statement names an object present in S or a rebuild shadow
\* table "_<name>_temp".
C4_DropsNameTargetCreatesNameSource ==
    Diffed => \A k \in DOMAIN Emitted : NamesAllowedObject(Emitted[k])

\* Diff emitted a shadow-table CREATE, a DROP TABLE and a DROP INDEX.
C4_Witness ==
    /\ Diffed
    /\ \E k \in DOMAIN Emitted : Emitted[k][1] = "CREATE TABLE" /\ ~TableExists(source, Emitted[k][2])
    /\ \E k \in DOMAIN Emitted : Emitted[k][1] = "DROP TABLE"
    /\ \E k \in DOMAIN Emitted : Emitted[k][1] = "DROP INDEX"

\* C5: whenever a step of Diff fails (a catalog query fails), Diff returns
\* a non-nil error together with the empty string, and nothing is printed.
C5_FailedDiffReturnsNothing ==
    (run.done /\ run.fault # "none") => (run.err /\ run.str = <<>> /\ stdout = <<>>)

\* The value a Get* call returns for the catalog rows `rows` of database d
\* when no query fails.
FullTables(d) == {r.val : r \in GetTables(d, "", NoFault)}

FullViews(d) == GetViews(d, "", NoFault).val

\* C6: if a catalog query fails at any point of introspection, also while
\* its rows are iterated, no model is returned: every model Diff worked on
\* with a nil error is the complete model of its database.
C6_NoTruncatedModel ==
    Diffed =>
        /\ run.sourceTables \in FullTables(source)
        /\ run.targetTables \in FullTables(target)
        /\ run.sourceViews = FullViews(source)
        /\ run.targetViews = FullViews(target)

\* Close has returned (action had constructed the adapter and has returned).
CloseReturned == pc \in {"returned", "exited"} /\ run.done

\* C7: after Close returns, with nil or with an error, both connections
\* have been closed.
C7_CloseClosesBoth ==
    CloseReturned => (srcConn = "closed" /\ tgtConn = "closed")

\* C8: if construction fails after the source connection was opened, the
\* source connection is closed before the constructor returns: no
\* connection stays open when NewSQLiteDriver returned an error.
C8_FailedConstructionReleases ==
    actionErr = "open" => (srcConn # "open" /\ tgtConn # "open")

\* C9: the process exits with code zero when the diff is printed and with
\* a non-zero code whenever action returned an error.
C9_ExitCodeReportsFailure ==
    pc = "exited" => (exitCode = 0 <=> actionErr = "nil")

\* C10: Diff is deterministic: the string it returned is the only string
\* Diff can return for the two databases.
C10_DiffDeterministic ==
    (Diffed /\ run.fault = "none") =>
        \A r \in Diff(source, target, NoFault) : r.str = run.str

(***************************************************************************)
(* The shape of the script.                                                *)
(***************************************************************************)
\* sub occurs in seq at position p.
Occurs(seq, sub, p) ==
    /\ p >= 1
    /\ p + Len(sub) - 1 <= Len(seq)
    /\ SubSeq(seq, p, p + Len(sub) - 1) = sub

IsViewStatement(stmt) ==
    stmt[1] = "DROP VIEW" \/ (stmt[1] = "EXEC" /\ stmt[2][1] = "CREATE VIEW")

\* The position of the last statement of the tables section.
TablesEnd ==
    Len(Emitted) - Cardinality({p \in DOMAIN Emitted : IsViewStatement(Emitted[p])})

\* The elements of list whose name is absent from others.
OnlyIn(list, others) == SelectSeq(list, LAMBDA x : ~HasName(others, x.Name))

\* The statements that create table t in full: the table, its indexes,
\* its triggers.
CreationStatements(t) ==
    << <<"CREATE TABLE", t.Name,
         [k \in DOMAIN t.Columns |-> ColumnString(t.Columns[k])],
         [k \in DOMAIN t.ForeignKeys |-> ForeignKeyString(t.ForeignKeys[k])]>> >>
    \o [k \in DOMAIN t.Indexes |-> IndexString(t.Indexes[k])]
    \o [k \in DOMAIN t.Triggers |-> ExecSQL(t.Triggers[k].SQL)]

\* C11: diff(S, T) holds the full creation of a table (CREATE TABLE, then
\* its indexes, then its triggers) exactly for the source tables absent
\* from T (any other CREATE TABLE is the shadow table of a rebuild, followed
\* by its INSERT), and a standalone DROP TABLE exactly for the target
\* tables absent from S; these DROPs close the tables section, after every
\* statement of a source table and before every view statement.
C11_CreatesSourceOnlyDropsTargetOnly ==
    Diffed =>
        LET S == run.sourceTables
            T == run.targetTables
            removed == OnlyIn(T, S)
        IN  /\ \A k \in DOMAIN S :
                  ~HasName(T, S[k].Name) =>
                      \E p \in 1..TablesEnd : Occurs(Emitted, CreationStatements(S[k]), p)
            /\ \A p \in DOMAIN Emitted :
                  Emitted[p][1] = "CREATE TABLE" =>
                      \/ /\ HasName(OnlyIn(S, T), Emitted[p][2])
                         /\ Occurs(Emitted, CreationStatements(ByName(S, Emitted[p][2])), p)
                      \/ /\ p < Len(Emitted)
                         /\ Emitted[p + 1][1] = "INSERT"
                         /\ Emitted[p + 1][2] = Emitted[p][2]
            /\ TablesEnd >= Len(removed)
            /\ \A k \in DOMAIN removed :
                  Emitted[TablesEnd - Len(removed) + k] = <<"DROP TABLE", removed[k].Name>>
            /\ \A p \in 1..(TablesEnd - Len(removed)) :
                  Emitted[p][1] = "DROP TABLE" => HasName(S, Emitted[p][2])
            /\ \A p \in DOMAIN Emitted : p > TablesEnd <=> IsViewStatement(Emitted[p])

\* Diff created a source-only table with an index and a trigger, dropped a
\* target-only table, compared a table present on both sides and emitted a
\* view statement.
C11_Witness ==
    /\ Diffed
    /\ \E k \in DOMAIN run.sourceTables :
          /\ ~HasName(run.targetTables, run.sourceTables[k].Name)
          /\ run.sourceTables[k].Indexes # <<>>
          /\ run.sourceTables[k].Triggers # <<>>
    /\ \E k \in DOMAIN run.sourceTables : HasName(run.targetTables, run.sourceTables[k].Name)
    /\ OnlyIn(run.targetTables, run.sourceTables) # <<>>
    /\ TablesEnd < Len(Emitted)

\* The statements C12 expects for the indexes of table t against those of
\* table other.
ExpectedIndexStatements(t, other) ==
    Concat([k \in DOMAIN t.Indexes |->
        LET i == t.Indexes[k] IN
        IF ~HasName(other.Indexes, i.Name) THEN <<IndexString(i)>>
        ELSE LET j == ByName(other.Indexes, i.Name) IN
             IF i.Table # j.Table \/ i.Unique # j.Unique \/ i.Columns # j.Columns
             THEN << <<"DROP INDEX", i.Name>>, IndexString(i) >>
             ELSE <<>>])
    \o [k \in DOMAIN OnlyIn(other.Indexes, t.Indexes) |->
           <<"DROP INDEX", OnlyIn(other.Indexes, t.Indexes)[k].Name>>]

\* The statements C12 expects for the triggers of t against those of other.
ExpectedTriggerStatements(t, other) ==
    Concat([k \in DOMAIN t.Triggers |->
        LET g == t.Triggers[k] IN
        IF ~HasName(other.Triggers, g.Name) THEN <<ExecSQL(g.SQL)>>
        ELSE IF g.SQL # ByName(other.Triggers, g.Name).SQL
             THEN << <<"DROP TRIGGER", g.Name>>, ExecSQL(g.SQL) >>
             ELSE <<>>])
    \o [k \in DOMAIN OnlyIn(other.Triggers, t.Triggers) |->
           <<"DROP TRIGGER", OnlyIn(other.Triggers, t.Triggers)[k].Name>>]

ExpectedViewStatements(S, T) ==
    Concat([k \in DOMAIN S |->
        IF ~HasName(T, S[k].Name) THEN <<ExecSQL(S[k].SQL)>>
        ELSE IF S[k].SQL # ByName(T, S[k].Name).SQL
             THEN << <<"DROP VIEW", S[k].Name>>, ExecSQL(S[k].SQL) >>
             ELSE <<>>])
    \o [k \in DOMAIN OnlyIn(T, S) |-> <<"DROP VIEW", OnlyIn(T, S)[k].Name>>]

\* C13: the views are diffed by name in a section that ends the script: a
\* view only in the source yields its stored CREATE text; a view in both
\* yields DROP VIEW then the source's CREATE text exactly when the stored
\* texts differ; a view only in the target yields DROP VIEW; all source
\* view statements precede the DROPs of target-only views, and no view
\* statement stands in the tables section.
C13_ViewsDiffedByNameAfterTables ==
    Diffed =>
        LET expected == ExpectedViewStatements(run.sourceViews, run.targetViews) IN
        /\ Len(Emitted) >= Len(expected)
        /\ SubSeq(Emitted, Len(Emitted) - Len(expected) + 1, Len(Emitted)) = expected
        /\ \A p \in 1..(Len(Emitted) - Len(expected)) : ~IsViewStatement(Emitted[p])

\* Diff compared views of which one is only in the source, one changed its
\* text and one is only in the target, after a tables section.
C13_Witness ==
    /\ Diffed
    /\ OnlyIn(run.sourceViews, run.targetViews) # <<>>
    /\ OnlyIn(run.targetViews, run.sourceViews) # <<>>
    /\ \E k \in DOMAIN run.sourceViews :
          /\ HasName(run.targetViews, run.sourceViews[k].Name)
          /\ run.sourceViews[k].SQL # ByName(run.targetViews, run.sourceViews[k].Name).SQL
    /\ run.sourceTables # <<>>

\* The statements C14 expects for the rebuild of source table t around its
\* INSERT statement.
RebuildStatements(t, insert) ==
    << <<"CREATE TABLE", TempName(t.Name),
         [k \in DOMAIN t.Columns |-> ColumnString(t.Columns[k])],
         [k \in DOMAIN t.ForeignKeys |-> ForeignKeyString(t.ForeignKeys[k])]>>,
       insert,
       <<"DROP TABLE", t.Name>>,
       <<"RENAME TABLE", TempName(t.Name), t.Name>> >>
    \o [k \in DOMAIN t.Indexes |-> IndexString(t.Indexes[k])]

\* C14: every rebuild of a table T is the uninterrupted run CREATE TABLE
\* "_T_temp" (columns and foreign keys), one INSERT INTO "_T_temp" ... FROM
\* "T", DROP TABLE "T", ALTER TABLE "_T_temp" RENAME TO "T", then CREATE
\* INDEX for every index of the source table; an INSERT, a RENAME TO and a
\* DROP of a table kept by the source occur only in such a run.
C14_RebuildStatementsInOrder ==
    Diffed =>
        \A p \in DOMAIN Emitted :
            /\ Emitted[p][1] = "INSERT" =>
                  /\ HasName(run.sourceTables, Emitted[p][5])
                  /\ Emitted[p][2] = TempName(Emitted[p][5])
                  /\ Occurs(Emitted,
                            RebuildStatements(ByName(run.sourceTables, Emitted[p][5]), Emitted[p]),
                            p - 1)
            /\ Emitted[p][1] = "RENAME TABLE" =>
                  p > 2 /\ Emitted[p - 2][1] = "INSERT" /\ Emitted[p - 2][5] = Emitted[p][3]
            /\ (Emitted[p][1] = "DROP TABLE" /\ HasName(run.sourceTables, Emitted[p][2])) =>
                  p > 1 /\ Emitted[p - 1][1] = "INSERT" /\ Emitted[p - 1][5] = Emitted[p][2]

\* Diff rebuilt a table that has an index and a foreign key.
C14_Witness ==
    /\ Diffed
    /\ \E p \in DOMAIN Emitted :
          /\ Emitted[p][1] = "INSERT"
          /\ HasName(run.sourceTables, Emitted[p][5])
          /\ ByName(run.sourceTables, Emitted[p][5]).Indexes # <<>>
          /\ ByName(run.sourceTables, Emitted[p][5]).ForeignKeys # <<>>

\* C15: in every rebuild the INSERT column list is the list of the shadow
\* table's declared columns, each once, in the source table's declared
\* order, and the SELECT list has the same length, its i-th expression
\* feeding the i-th column: the column of that name when the target table
\* has it, otherwise a target column the source has not, or a constant.
C15_InsertListsFollowSourceColumns ==
    Diffed =>
        \A p \in DOMAIN Emitted :
            Emitted[p][1] = "INSERT" =>
                LET t == ByName(run.sourceTables, Emitted[p][5])
                    other == ByName(run.targetTables, Emitted[p][5])
                    columns == Emitted[p][3]
                    exprs == Emitted[p][4]
                    shadow == Emitted[p - 1]
                IN  /\ columns = [k \in DOMAIN t.Columns |-> Quoted(t.Columns[k].Name)]
                    /\ \A i, j \in DOMAIN columns : i # j => columns[i] # columns[j]
                    /\ shadow[1] = "CREATE TABLE" /\ shadow[2] = Emitted[p][2]
                    /\ [k \in DOMAIN shadow[3] |-> Quoted(shadow[3][k][1])] = columns
                    /\ Len(exprs) = Len(columns)
                    /\ \A i \in DOMAIN exprs :
                          IF HasName(other.Columns, t.Columns[i].Name)
                          THEN exprs[i] = Quoted(t.Columns[i].Name)
                          ELSE \/ exprs[i][1] = "expr"
                               \/ /\ exprs[i][1] = "ident"
                                  /\ HasName(other.Columns, exprs[i][2])
                                  /\ ~HasName(t.Columns, exprs[i][2])

\* Diff rebuilt a table of two columns, one copied under its name and one
\* that the target table has not.
C15_Witness ==
    /\ Diffed
    /\ \E p \in DOMAIN Emitted :
          /\ Emitted[p][1] = "INSERT"
          /\ Len(Emitted[p][3]) >= 2
          /\ \E i, j \in DOMAIN Emitted[p][3] :
                /\ Emitted[p][4][i] = Emitted[p][3][i]
                /\ Emitted[p][4][j] # Emitted[p][3][j]

\* The script rebuilds table `name`.
Rebuilds(name) ==
    \E p \in DOMAIN Emitted : Emitted[p][1] = "INSERT" /\ Emitted[p][5] = name

\* The in-place column statements of the script for table `name`.
InPlaceStatements(name) ==
    SelectSeq(Emitted, LAMBDA stmt :
        stmt[1] \in {"RENAME COLUMN", "DROP COLUMN", "ADD COLUMN"} /\ stmt[2] = name)

\* stmt occurs exactly once in the script.
EmittedOnce(stmt) == Cardinality({p \in DOMAIN Emitted : Emitted[p] = stmt}) = 1

\* C16: a table present in S and T is rebuilt if and only if a column is
\* classified Modified or its foreign keys changed; a rebuilt table gets no
\* in-place RENAME/DROP/ADD COLUMN; a table not rebuilt gets exactly one
\* RENAME COLUMN per Renamed pair, one DROP COLUMN per Removed column and
\* one ADD COLUMN (with the source definition) per Added column.
C16_RebuildIffModifiedOrForeignKeys ==
    Diffed =>
        \A k \in DOMAIN run.sourceTables :
            LET t == run.sourceTables[k] IN
            HasName(run.targetTables, t.Name) =>
                LET columnsDiff == DiffColumns(t, ByName(run.targetTables, t.Name)) IN
                /\ Rebuilds(t.Name) <=>
                      (columnsDiff.Modified # <<>> \/ columnsDiff.ForeignKeysChanged)
                /\ Rebuilds(t.Name) => InPlaceStatements(t.Name) = <<>>
                /\ ~Rebuilds(t.Name) =>
                      /\ Len(InPlaceStatements(t.Name)) =
                            Cardinality(columnsDiff.Renamed) + Len(columnsDiff.Removed)
                                + Len(columnsDiff.Added)
                      /\ \A r \in columnsDiff.Renamed :
                            EmittedOnce(<<"RENAME COLUMN", t.Name, r[1], r[2]>>)
                      /\ \A i \in DOMAIN columnsDiff.Removed :
                            EmittedOnce(<<"DROP COLUMN", t.Name, columnsDiff.Removed[i]>>)
                      /\ \A i \in DOMAIN columnsDiff.Added :
                            EmittedOnce(<<"ADD COLUMN", t.Name,
                                          ColumnString(ByName(t.Columns, columnsDiff.Added[i]))>>)

\* Diff altered a table in place with a RENAME, a DROP and an ADD COLUMN.
C16_Witness ==
    /\ Diffed
    /\ \E k \in DOMAIN run.sourceTables :
          /\ ~Rebuilds(run.sourceTables[k].Name)
          /\ \E i, j, l \in DOMAIN InPlaceStatements(run.sourceTables[k].Name) :
                /\ InPlaceStatements(run.sourceTables[k].Name)[i][1] = "RENAME COLUMN"
                /\ InPlaceStatements(run.sourceTables[k].Name)[j][1] = "DROP COLUMN"
                /\ InPlaceStatements(run.sourceTables[k].Name)[l][1] = "ADD COLUMN"

\* The columns of source table t that target table other has under the same
\* name with another declared type.
RetypedColumns(t, other) ==
    SelectSeq(t.Columns, LAMBDA c :
        HasName(other.Columns, c.Name) /\ ByName(other.Columns, c.Name).Type # c.Type)

\* C17: for a column present in both tables by name whose declared type
\* differs: when the old and the new type are both among TEXT, INTEGER, REAL
\* and BLOB the column is classified Modified and the table is rebuilt;
\* otherwise the column is in Removed and in Added (not in Modified) and,
\* when the table is not rebuilt, the script holds DROP COLUMN "c" and later
\* ADD COLUMN "c" with the source definition.
C17_TypeChangeByAllowlist ==
    Diffed =>
        \A k \in DOMAIN run.sourceTables :
            LET t == run.sourceTables[k] IN
            HasName(run.targetTables, t.Name) =>
                LET other == ByName(run.targetTables, t.Name)
                    columnsDiff == DiffColumns(t, other)
                    retyped == RetypedColumns(t, other)
                IN  \A i \in DOMAIN retyped :
                        LET c == retyped[i]
                            old == ByName(other.Columns, c.Name)
                        IN  IF {c.Type, old.Type} \subseteq {"TEXT", "INTEGER", "REAL", "BLOB"}
                            THEN /\ c.Name \in Range(columnsDiff.Modified)
                                 /\ Rebuilds(t.Name)
                            ELSE /\ c.Name \in Range(columnsDiff.Removed)
                                 /\ c.Name \in Range(columnsDiff.Added)
                                 /\ c.Name \notin Range(columnsDiff.Modified)
                                 /\ ~Rebuilds(t.Name) =>
                                       \E p, q \in DOMAIN Emitted :
                                           /\ p < q
                                           /\ Emitted[p] = <<"DROP COLUMN", t.Name, c.Name>>
                                           /\ Emitted[q] = <<"ADD COLUMN", t.Name, ColumnString(c)>>

\* Diff compared a table, not rebuilt, in which a column changed to a type
\* outside the allowlist.
C17_Witness ==
    /\ Diffed
    /\ \E k \in DOMAIN run.sourceTables :
          LET t == run.sourceTables[k] IN
          /\ HasName(run.targetTables, t.Name)
          /\ ~Rebuilds(t.Name)
          /\ \E i \in DOMAIN RetypedColumns(t, ByName(run.targetTables, t.Name)) :
                RetypedColumns(t, ByName(run.targetTables, t.Name))[i].Type = "VARCHAR"

\* How many times foreign key fk is declared in list.
Declared(list, fk) == Cardinality({i \in DOMAIN list : list[i] = fk})

\* The foreign keys of tables t and other are the same declarations.
SameForeignKeys(t, other) ==
    \A fk \in Range(t.ForeignKeys) \cup Range(other.ForeignKeys) :
        Declared(t.ForeignKeys, fk) = Declared(other.ForeignKeys, fk)

\* C18: whenever the foreign keys of source table T differ from those of
\* target table T (one added, removed or changed in referenced table,
\* columns, ON UPDATE or ON DELETE), DiffColumns sets ForeignKeysChanged and
\* T is rebuilt with the source's foreign keys in the shadow table; when
\* they are equal, T is rebuilt only for a Modified column.
C18_ForeignKeyChangeForcesRebuild ==
    Diffed =>
        \A k \in DOMAIN run.sourceTables :
            LET t == run.sourceTables[k] IN
            HasName(run.targetTables, t.Name) =>
                LET other == ByName(run.targetTables, t.Name)
                    columnsDiff == DiffColumns(t, other)
                IN  IF SameForeignKeys(t, other)
                    THEN /\ ~columnsDiff.ForeignKeysChanged
                         /\ Rebuilds(t.Name) <=> columnsDiff.Modified # <<>>
                    ELSE /\ columnsDiff.ForeignKeysChanged
                         /\ \E p \in DOMAIN Emitted :
                               /\ Emitted[p][1] = "CREATE TABLE"
                               /\ Emitted[p][2] = TempName(t.Name)
                               /\ Emitted[p][4] = [i \in DOMAIN t.ForeignKeys |->
                                                     ForeignKeyString(t.ForeignKeys[i])]
                               /\ Rebuilds(t.Name)

(***************************************************************************)
(* PostgreSQL: the statements of a table present in both catalogs.         *)
(***************************************************************************)
\* A finished PostgresDriver.Diff call.
PostgresDiffed == pc \in {"diffed", "returned"} /\ run.done

\* The column a column statement of table is about ("" for other statements).
ColumnOf(stmt, table) ==
    IF stmt[1] = "ADD COLUMN" /\ stmt[2] = table THEN stmt[3][1]
    ELSE IF stmt[1] \in {"DROP COLUMN", "ALTER TYPE", "SET NOT NULL", "DROP NOT NULL",
                         "SET DEFAULT", "DROP DEFAULT"} /\ stmt[2] = table
    THEN stmt[3]
    ELSE ""

\* The emitted statements about one column of one table, in script order.
ColumnStatements(table, column) ==
    LET About(stmt) == ColumnOf(stmt, table) = column IN SelectSeq(Emitted, About)

\* What the three attribute comparisons of a column c against its namesake
\* d call for.
ExpectedAlterations(table, c, d) ==
    (IF c.Type # d.Type THEN << <<"ALTER TYPE", table, c.Name, c.Type>> >> ELSE <<>>)
    \o (IF c.NotNull # d.NotNull
        THEN << <<IF c.NotNull THEN "SET NOT NULL" ELSE "DROP NOT NULL", table, c.Name>> >>
        ELSE <<>>)
    \o (IF c.Default # d.Default
        THEN IF c.Default.Valid
             THEN << <<"SET DEFAULT", table, c.Name, c.Default.String>> >>
             ELSE << <<"DROP DEFAULT", table, c.Name>> >>
        ELSE <<>>)

\* The tables present in both catalogs, as pairs <<source table, target table>>.
PostgresCommonTables ==
    {<<run.sourceTables[k], ByName(run.targetTables, run.sourceTables[k].Name)>> :
        k \in {j \in DOMAIN run.sourceTables :
                 HasName(run.targetTables, run.sourceTables[j].Name)}}

\* C19: for a column of both tables the script holds ALTER COLUMN TYPE iff
\* the types differ, then SET or DROP NOT NULL iff the flags differ, then
\* SET or DROP DEFAULT iff the defaults differ, and nothing else about the
\* column; a source-only column yields one ADD COLUMN, a target-only column
\* one DROP COLUMN; no table of both catalogs is created, dropped, renamed or
\* copied.
C19_PostgresColumnsAlteredInPlace ==
    PostgresDiffed =>
        \A p \in PostgresCommonTables :
            LET t == p[1]
                o == p[2]
            IN /\ \A k \in DOMAIN t.Columns :
                    LET c == t.Columns[k] IN
                    ColumnStatements(t.Name, c.Name) =
                        IF HasName(o.Columns, c.Name)
                        THEN ExpectedAlterations(t.Name, c, ByName(o.Columns, c.Name))
                        ELSE << <<"ADD COLUMN", t.Name,
                                  <<c.Name, c.Type, c.NotNull,
                                    IF c.Default.Valid THEN <<c.Default.String>> ELSE <<>> >> >> >>
               /\ \A k \in DOMAIN o.Columns :
                    ~HasName(t.Columns, o.Columns[k].Name) =>
                        ColumnStatements(t.Name, o.Columns[k].Name) =
                            << <<"DROP COLUMN", t.Name, o.Columns[k].Name>> >>
               /\ \A k \in DOMAIN Emitted :
                    /\ Emitted[k][1] \notin {"INSERT", "RENAME TABLE"}
                    /\ Emitted[k][1] \in {"CREATE TABLE", "DROP TABLE"} => Emitted[k][2] # t.Name

\* C19 witness: a column of both tables differs in type, NOT NULL and default
\* (three statements about it), next to a source-only column.
C19_Witness ==
    /\ PostgresDiffed
    /\ \E p \in PostgresCommonTables :
          /\ \E k \in DOMAIN p[1].Columns :
                /\ HasName(p[2].Columns, p[1].Columns[k].Name)
                /\ Len(ColumnStatements(p[1].Name, p[1].Columns[k].Name)) = 3
                /\ ~p[1].Columns[k].Default.Valid
          /\ \E k \in DOMAIN p[1].Columns : ~HasName(p[2].Columns, p[1].Columns[k].Name)

\* C19 witness of the removal: a target-only column is dropped.
C19_WitnessDrop ==
    /\ PostgresDiffed
    /\ \E p \in PostgresCommonTables :
          \E k \in DOMAIN p[2].Columns :
              /\ ~HasName(p[1].Columns, p[2].Columns[k].Name)
              /\ Len(ColumnStatements(p[1].Name, p[2].Columns[k].Name)) = 1

\* What the comparison by name of one kind of dependent object calls for:
\* create for a source-only name, drop then create for a name of both whose
\* definition strings differ, drop for a target-only name.
ExpectedByName(sourceList, targetList, name, create, drop) ==
    IF HasName(sourceList, name) /\ ~HasName(targetList, name) THEN <<create>>
    ELSE IF ~HasName(sourceList, name) /\ HasName(targetList, name) THEN <<drop>>
    ELSE IF ByName(sourceList, name).Def # ByName(targetList, name).Def THEN <<drop, create>>
    ELSE <<>>

\* The names of the objects of two lists.
NamesOf(sourceList, targetList) ==
    {sourceList[k].Name : k \in DOMAIN sourceList} \cup {targetList[k].Name : k \in DOMAIN targetList}

\* The emitted statements about the constraint, index or trigger name of table.
ConstraintStatements(table, name) ==
    LET About(stmt) == \/ stmt = <<"DROP CONSTRAINT", table, name>>
                       \/ stmt[1] = "ADD CONSTRAINT" /\ stmt[2] = table /\ stmt[3][1] = name
    IN SelectSeq(Emitted, About)

IndexStatements(name) ==
    LET About(stmt) == \/ stmt = <<"DROP INDEX", name>>
                       \/ stmt[1] = "EXEC" /\ stmt[2][1] = "CREATE INDEX" /\ stmt[2][2] = name
    IN SelectSeq(Emitted, About)

TriggerStatements(table, name) ==
    LET About(stmt) == \/ stmt = <<"DROP TRIGGER ON", name, table>>
                       \/ stmt[1] = "EXEC" /\ stmt[2][1] = "CREATE TRIGGER" /\ stmt[2][2] = name
    IN SelectSeq(Emitted, About)

\* stmt is a constraint, index or trigger statement of the table pair p.
IsDependentStatement(stmt, p) ==
    \/ \E n \in NamesOf(p[1].Constraints, p[2].Constraints) :
          \E k \in DOMAIN ConstraintStatements(p[1].Name, n) :
              ConstraintStatements(p[1].Name, n)[k] = stmt
    \/ \E n \in NamesOf(p[1].Indexes, p[2].Indexes) :
          \E k \in DOMAIN IndexStatements(n) : IndexStatements(n)[k] = stmt
    \/ \E n \in NamesOf(p[1].Triggers, p[2].Triggers) :
          \E k \in DOMAIN TriggerStatements(p[1].Name, n) :
              TriggerStatements(p[1].Name, n)[k] = stmt

\* C20: for a table of both catalogs, each constraint, index and trigger name
\* has in the script its creation statement when only the source has it, DROP
\* then creation exactly when both have it with different definition strings,
\* DROP when only the target has it, and nothing otherwise; every such
\* statement comes after every column statement of the table.
C20_PostgresDependentsByNameAfterColumns ==
    PostgresDiffed =>
        \A p \in PostgresCommonTables :
            LET t == p[1]
                o == p[2]
            IN /\ \A n \in NamesOf(t.Constraints, o.Constraints) :
                    ConstraintStatements(t.Name, n) =
                        ExpectedByName(t.Constraints, o.Constraints, n,
                            IF HasName(t.Constraints, n)
                            THEN <<"ADD CONSTRAINT", t.Name, <<n, ByName(t.Constraints, n).Def>> >>
                            ELSE <<>>,
                            <<"DROP CONSTRAINT", t.Name, n>>)
               /\ \A n \in NamesOf(t.Indexes, o.Indexes) :
                    IndexStatements(n) =
                        ExpectedByName(t.Indexes, o.Indexes, n,
                            IF HasName(t.Indexes, n)
                            THEN <<"EXEC", ByName(t.Indexes, n).Def>> ELSE <<>>,
                            <<"DROP INDEX", n>>)
               /\ \A n \in NamesOf(t.Triggers, o.Triggers) :
                    TriggerStatements(t.Name, n) =
                        ExpectedByName(t.Triggers, o.Triggers, n,
                            IF HasName(t.Triggers, n)
                            THEN <<"EXEC", ByName(t.Triggers, n).Def>> ELSE <<>>,
                            <<"DROP TRIGGER ON", n, t.Name>>)
               /\ \A i, j \in DOMAIN Emitted :
                    (ColumnOf(Emitted[i], t.Name) # "" /\ IsDependentStatement(Emitted[j], p))
                        => i < j

\* C20 witness: a table of both catalogs with a column statement, a
\* constraint whose definition changed (DROP then ADD), a source-only index
\* and a target-only trigger.
C20_Witness ==
    /\ PostgresDiffed
    /\ \E p \in PostgresCommonTables :
          /\ \E k \in DOMAIN Emitted : ColumnOf(Emitted[k], p[1].Name) # ""
          /\ \E n \in NamesOf(p[1].Constraints, p[2].Constraints) :
                Len(ConstraintStatements(p[1].Name, n)) = 2
          /\ \E k \in DOMAIN p[1].Indexes :
                /\ ~HasName(p[2].Indexes, p[1].Indexes[k].Name)
                /\ Len(IndexStatements(p[1].Indexes[k].Name)) = 1
          /\ \E k \in DOMAIN p[2].Triggers :
                /\ ~HasName(p[1].Triggers, p[2].Triggers[k].Name)
                /\ Len(TriggerStatements(p[1].Name, p[2].Triggers[k].Name)) = 1

(***************************************************************************)
(* SQLite: the column classification and what the rebuild copies.          *)
(***************************************************************************)
\* The INSERT statements of the script, as positions.
Inserts == {p \in DOMAIN Emitted : Emitted[p][1] = "INSERT"}

\* The old names DiffColumns recorded as renamed to the source column `name`.
RecordedOldNames(t, other, name) ==
    {r[1] : r \in {q \in DiffColumns(t, other).Renamed : q[2] = name}}

\* C21: in the INSERT of a rebuild the expression for source column c is "c"
\* when the target table has a column c; otherwise the old name when a rename
\* to c is recorded; otherwise c's default when it declares one; otherwise
\* NULL.
C21_SelectExpressionPriority ==
    Diffed =>
        \A p \in Inserts :
            LET t == ByName(run.sourceTables, Emitted[p][5])
                other == ByName(run.targetTables, Emitted[p][5])
                exprs == Emitted[p][4]
            IN  /\ Len(exprs) = Len(t.Columns)
                /\ \A i \in DOMAIN t.Columns :
                      LET c == t.Columns[i] IN
                      IF HasName(other.Columns, c.Name) THEN exprs[i] = <<"ident", c.Name>>
                      ELSE IF RecordedOldNames(t, other, c.Name) # {}
                      THEN exprs[i][1] = "ident" /\ exprs[i][2] \in RecordedOldNames(t, other, c.Name)
                      ELSE IF c.Default.Valid THEN exprs[i] = <<"expr", c.Default.String>>
                      ELSE exprs[i] = <<"expr", "NULL">>

\* C21 witness: a rebuild copies one column under its name and takes another,
\* which declares a default, from the column it was renamed from.
C21_Witness ==
    /\ Diffed
    /\ \E p \in Inserts :
          LET t == ByName(run.sourceTables, Emitted[p][5])
              other == ByName(run.targetTables, Emitted[p][5])
          IN  /\ \E i \in DOMAIN t.Columns : HasName(other.Columns, t.Columns[i].Name)
              /\ \E i \in DOMAIN t.Columns :
                    /\ t.Columns[i].Default.Valid
                    /\ RecordedOldNames(t, other, t.Columns[i].Name) # {}
                    /\ Emitted[p][4][i][1] = "ident"

\* The type of column c changed incompatibly against its namesake of other:
\* one of the two types is outside the allowlist.
IncompatiblyRetyped(other, c) ==
    /\ HasName(other.Columns, c.Name)
    /\ ByName(other.Columns, c.Name).Type # c.Type
    /\ ~({c.Type, ByName(other.Columns, c.Name).Type} \subseteq {"TEXT", "INTEGER", "REAL", "BLOB"})

\* C22: the INSERT of a rebuild copies the old column for a column the target
\* has under the same name (unless its type changed incompatibly) and for a
\* renamed column, supplies the default or NULL for a new column, and reads no
\* old data for a column whose type changed incompatibly nor from a removed
\* column.
C22_RebuildCopiesOnlyCompatibleData ==
    Diffed =>
        \A p \in Inserts :
            LET t == ByName(run.sourceTables, Emitted[p][5])
                other == ByName(run.targetTables, Emitted[p][5])
                exprs == Emitted[p][4]
            IN  \A i \in DOMAIN t.Columns :
                    LET c == t.Columns[i] IN
                    /\ IncompatiblyRetyped(other, c) => exprs[i][1] = "expr"
                    /\ (HasName(other.Columns, c.Name) /\ ~IncompatiblyRetyped(other, c))
                          => exprs[i] = <<"ident", c.Name>>
                    /\ (~HasName(other.Columns, c.Name) /\ RecordedOldNames(t, other, c.Name) # {})
                          => exprs[i][1] = "ident" /\ exprs[i][2] \in RecordedOldNames(t, other, c.Name)
                    /\ (~HasName(other.Columns, c.Name) /\ RecordedOldNames(t, other, c.Name) = {})
                          => exprs[i] = <<"expr", IF c.Default.Valid THEN c.Default.String ELSE "NULL">>
                    /\ exprs[i][1] = "ident" =>
                          \/ HasName(t.Columns, exprs[i][2])
                          \/ exprs[i][2] \in RecordedOldNames(t, other, c.Name)

\* The tables present in both schemas, as pairs <<source table, target table>>.
CommonTables ==
    {<<run.sourceTables[k], ByName(run.targetTables, run.sourceTables[k].Name)>> :
        k \in {j \in DOMAIN run.sourceTables :
                 HasName(run.targetTables, run.sourceTables[j].Name)}}

\* The names in Renamed, as old or as new name.
RenamedNames(columnsDiff) ==
    {r[1] : r \in columnsDiff.Renamed} \cup {r[2] : r \in columnsDiff.Renamed}

\* The names of the columns of t whose type changed incompatibly.
IncompatibleNames(t, other) ==
    {t.Columns[k].Name : k \in {j \in DOMAIN t.Columns : IncompatiblyRetyped(other, t.Columns[j])}}

\* C23 as stated: no column name is in more than one of Renamed (old or new
\* name), Added, Removed and Modified.
C23_ClassificationsDisjoint ==
    Diffed =>
        \A p \in CommonTables :
            LET d == DiffColumns(p[1], p[2]) IN
            /\ RenamedNames(d) \cap (Range(d.Added) \cup Range(d.Removed) \cup Range(d.Modified)) = {}
            /\ Range(d.Added) \cap Range(d.Removed) = {}
            /\ Range(d.Added) \cap Range(d.Modified) = {}
            /\ Range(d.Removed) \cap Range(d.Modified) = {}

\* C23 amended: the classifications are pairwise disjoint except that the
\* names in both Added and Removed are exactly those of the columns present
\* in both tables whose type changed incompatibly.
C23_DisjointButIncompatiblyRetyped ==
    Diffed =>
        \A p \in CommonTables :
            LET d == DiffColumns(p[1], p[2]) IN
            /\ RenamedNames(d) \cap (Range(d.Added) \cup Range(d.Removed) \cup Range(d.Modified)) = {}
            /\ Range(d.Added) \cap Range(d.Removed) = IncompatibleNames(p[1], p[2])
            /\ Range(d.Added) \cap Range(d.Modified) = {}
            /\ Range(d.Removed) \cap Range(d.Modified) = {}

\* C23 witness: a compared table with a recorded rename and a column that is
\* both removed and added.
C23_Witness ==
    /\ Diffed
    /\ \E p \in CommonTables :
          LET d == DiffColumns(p[1], p[2]) IN
          /\ d.Renamed # {}
          /\ Range(d.Added) \cap Range(d.Removed) # {}

\* The first-fit pairing of C24: the source columns from the i-th on are
\* processed in declared order; a source column absent from the target is
\* paired with the first target column, in declared order, that is absent
\* from the source, has equal non-name attributes and is not yet in `paired`
\* (a set of <<old name, new name>>).
RECURSIVE FirstFit(_, _, _, _)
FirstFit(t, other, i, paired) ==
    IF i > Len(t.Columns) THEN paired
    ELSE LET c == t.Columns[i]
             free == SelectSeq(other.Columns, LAMBDA d :
                        /\ ~HasName(t.Columns, d.Name)
                        /\ [d EXCEPT !.Name = c.Name] = c
                        /\ d.Name \notin {r[1] : r \in paired})
         IN  IF HasName(other.Columns, c.Name) \/ free = <<>>
             THEN FirstFit(t, other, i + 1, paired)
             ELSE FirstFit(t, other, i + 1, paired \cup {<<Head(free).Name, c.Name>>})

\* C24: Renamed is the first-fit pairing, and no target column and no source
\* column takes part in more than one rename.
C24_RenamedIsFirstFitPairing ==
    Diffed =>
        \A p \in CommonTables :
            LET renamed == DiffColumns(p[1], p[2]).Renamed IN
            /\ renamed = FirstFit(p[1], p[2], 1, {})
            /\ \A q, r \in renamed : (q[1] = r[1] \/ q[2] = r[2]) => q = r

\* C25: a source column whose name is absent from the target is the new name
\* of exactly one Renamed pair or is once in Added, never both; when the
\* table is altered in place the script holds exactly one RENAME COLUMN to it
\* or ADD COLUMN of it.
C25_AbsentSourceColumnIntroducedOnce ==
    Diffed =>
        \A p \in CommonTables :
            LET t == p[1]
                d == DiffColumns(p[1], p[2])
            IN  \A k \in DOMAIN t.Columns :
                    LET c == t.Columns[k] IN
                    ~HasName(p[2].Columns, c.Name) =>
                        /\ Cardinality({r \in d.Renamed : r[2] = c.Name})
                             + Cardinality({j \in DOMAIN d.Added : d.Added[j] = c.Name}) = 1
                        /\ ~Rebuilds(t.Name) =>
                              Cardinality({j \in DOMAIN Emitted :
                                  \/ /\ Emitted[j][1] = "RENAME COLUMN"
                                     /\ Emitted[j][2] = t.Name /\ Emitted[j][4] = c.Name
                                  \/ /\ Emitted[j][1] = "ADD COLUMN"
                                     /\ Emitted[j][2] = t.Name /\ Emitted[j][3][1] = c.Name}) = 1

(***************************************************************************)
(* The order of a table's statements.                                      *)
(***************************************************************************)
\* stmt is a column statement of the SQLite table pair p: an in-place ALTER
\* of the table or a statement of its rebuild up to the RENAME TO.
IsSQLiteColumnStatement(stmt, p) ==
    \/ stmt[1] \in {"RENAME COLUMN", "DROP COLUMN", "ADD COLUMN"} /\ stmt[2] = p[1].Name
    \/ stmt[1] \in {"CREATE TABLE", "INSERT", "RENAME TABLE"} /\ stmt[2] = TempName(p[1].Name)
    \/ stmt = <<"DROP TABLE", p[1].Name>>

\* stmt is a statement of the index and trigger comparison of the SQLite
\* table pair p (the CREATE INDEX statements that end a rebuild are left out).
IsSQLiteDependentStatement(stmt, p) ==
    \/ stmt[1] = "DROP INDEX" /\ HasName(p[2].Indexes, stmt[2])
    \/ stmt[1] = "DROP TRIGGER" /\ HasName(p[2].Triggers, stmt[2])
    \/ stmt[1] = "EXEC" /\ stmt[2][1] = "CREATE TRIGGER" /\ stmt[2][3] = p[1].Name
    \/ stmt[1] = "CREATE INDEX" /\ stmt[3] = p[1].Name /\ ~Rebuilds(p[1].Name)

\* C26: for a table of both schemas, SQLite (tables with foreign keys) emits
\* the index and trigger statements before the column statements, and
\* PostgreSQL (tables with constraints) emits the constraint, index and
\* trigger statements after the column statements.
C26_DependentsBeforeColumnsInSQLite ==
    Diffed =>
        \A p \in CommonTables :
            \A i, j \in DOMAIN Emitted :
                /\ ("ForeignKeys" \in DOMAIN p[1]
                        /\ IsSQLiteDependentStatement(Emitted[i], p)
                        /\ IsSQLiteColumnStatement(Emitted[j], p)) => i < j
                /\ ("Constraints" \in DOMAIN p[1]
                        /\ ColumnOf(Emitted[i], p[1].Name) # ""
                        /\ IsDependentStatement(Emitted[j], p)) => i < j

\* C27: PostgreSQL detects no rename: for a source column whose name the
\* target table has not and a target column whose name the source table has
\* not, whatever their attributes, the script holds ADD COLUMN of the source
\* column (with its definition) and DROP COLUMN of the target column, and it
\* holds no RENAME COLUMN statement.
C27_PostgresNeverRenames ==
    PostgresDiffed =>
        /\ \A k \in DOMAIN Emitted : Emitted[k][1] # "RENAME COLUMN"
        /\ \A p \in PostgresCommonTables :
              \A i \in DOMAIN p[1].Columns, j \in DOMAIN p[2].Columns :
                  LET c == p[1].Columns[i]
                      d == p[2].Columns[j]
                  IN  (~HasName(p[2].Columns, c.Name) /\ ~HasName(p[1].Columns, d.Name)) =>
                          /\ \E k \in DOMAIN Emitted :
                                /\ Emitted[k][1] = "ADD COLUMN"
                                /\ Emitted[k][2] = p[1].Name
                                /\ Emitted[k][3][1] = c.Name
                                /\ Emitted[k][3][2] = c.Type
                          /\ \E k \in DOMAIN Emitted :
                                Emitted[k] = <<"DROP COLUMN", p[1].Name, d.Name>>

\* C27 witness: a source-only and a target-only column with identical type,
\* NOT NULL flag and default, added and dropped.
C27_Witness ==
    /\ PostgresDiffed
    /\ \E p \in PostgresCommonTables :
          \E i \in DOMAIN p[1].Columns, j \in DOMAIN p[2].Columns :
              /\ ~HasName(p[2].Columns, p[1].Columns[i].Name)
              /\ ~HasName(p[1].Columns, p[2].Columns[j].Name)
              /\ [p[1].Columns[i] EXCEPT !.Name = ""] = [p[2].Columns[j] EXCEPT !.Name = ""]
              /\ p[1].Columns[i].Default.Valid
              /\ Len(ColumnStatements(p[1].Name, p[1].Columns[i].Name)) = 1
              /\ Len(ColumnStatements(p[1].Name, p[2].Columns[j].Name)) = 1

\* C28: when SQLite table T is rebuilt, every trigger of the source table T
\* is created by a statement after the rebuild's DROP TABLE "T", and once the
\* script has been applied without error T carries exactly the source's
\* triggers.
C28_RebuildRecreatesTriggers ==
    Diffed =>
        \A p \in CommonTables :
            Rebuilds(p[1].Name) =>
                /\ \A k \in DOMAIN p[1].Triggers :
                      \E i, j \in DOMAIN Emitted :
                          /\ i < j
                          /\ Emitted[i] = <<"DROP TABLE", p[1].Name>>
                          /\ Emitted[j] = <<"EXEC", p[1].Triggers[k].SQL>>
                /\ (Executed /\ ~execErr) =>
                      /\ TableExists(db, p[1].Name)
                      /\ Range(TableOf(db, p[1].Name).Triggers) = Range(p[1].Triggers)

\* C29: every name DiffColumns places in Added is the name of a column of
\* the source table, in every compared pair of tables, so a Diff whose
\* catalog queries succeed never fails with "added column not found".
C29_AddedColumnsAreSourceColumns ==
    (run.done /\ run.fault = "none") =>
        /\ ~run.err
        /\ actionErr = "nil"
        /\ \A k \in DOMAIN source.tables :
              HasName(target.tables, source.tables[k].Name) =>
                  \A n \in Range(DiffColumns(source.tables[k],
                                             ByName(target.tables, source.tables[k].Name)).Added) :
                      HasName(source.tables[k].Columns, n)

\* C29 witness: a table altered in place with two added columns, one of them
\* under a name the target table also has.
C29_Witness ==
    /\ Diffed
    /\ \E p \in CommonTables :
          LET d == DiffColumns(p[1], p[2]) IN
          /\ ~Rebuilds(p[1].Name)
          /\ Len(d.Added) = 2
          /\ \E n \in Range(d.Added) : HasName(p[2].Columns, n)
          /\ \A n \in Range(d.Added) :
                \E k \in DOMAIN Emitted :
                    Emitted[k][1] = "ADD COLUMN" /\ Emitted[k][3][1] = n

\* C30: the shadow name "_T_temp" of a rebuilt table T is not the name of
\* another source table, and when the script's CREATE TABLE "_T_temp" is
\* about to be executed the database holds no table of that name.
C30_ShadowNameIsFresh ==
    Diffed =>
        \A p \in CommonTables :
            Rebuilds(p[1].Name) =>
                /\ ~HasName(run.sourceTables, TempName(p[1].Name))
                /\ (/\ pc = "exited"
                    /\ pos < Len(Script)
                    /\ Script[pos + 1][1] = "CREATE TABLE"
                    /\ Script[pos + 1][2] = TempName(p[1].Name)
                    /\ pos + 2 <= Len(Script)
                    /\ Script[pos + 2][1] = "INSERT")
                      => ~TableExists(db, TempName(p[1].Name))
====
